---- MODULE Spec2Model ----
(***************************************************************************)
(* State-machine model of backend/app/services/graphrag.py:                *)
(*   - StubGraphRAGChatEngine (the in-memory fallback engine),             *)
(*   - GraphRAGService (the facade, its production backend calls and the   *)
(*     thread-to-event-loop streaming bridge of stream_chat).              *)
(* Text is a sequence of one-character strings, so that split(), lower(),  *)
(* strip(), splitlines() and substring tests are computed, not assumed.    *)
(***************************************************************************)
EXTENDS Integers, Sequences, FiniteSets, TLC

VARIABLES
    \* ---- the environment the service is constructed in
    HAS_GRAPH_BACKEND,      \* module flag set by the guarded SDK import
    config,                 \* GraphRAGConfig: the three policy flags
    ontology_file,          \* ontology persisted at config.ontology_path, or None
    data_dir,               \* the files under base_path/data: {[dir, name, data]}
    \* ---- GraphRAGService fields
    phase,                  \* "new" | "ready" | "ctor_raised"
    using_stub,             \* self._using_stub
    has_engine,             \* self._engine is set (a StubGraphRAGChatEngine)
    svc_documents,          \* self._documents (insertion-ordered dict as a sequence)
    knowledge_graph,        \* self._knowledge_graph: <<>> (None) or <<the graph>>
    chat_session,           \* self._chat_session: <<>> (None) or <<the session>>
    model_config,           \* self._model_config: None or "model_config"
    ontology,               \* self._ontology
    last_ingest_summary,    \* self._last_ingest_summary
    result,                 \* what the last facade/engine call returned or raised
    \* ---- StubGraphRAGChatEngine fields and its stream_chat generators
    engine_documents,       \* self._documents (insertion-ordered dict as a sequence)
    chat_history,           \* self._chat_history
    task,                   \* per task: the suspended stream_chat generator
    \* ---- GraphRAGService.stream_chat, production branch, per call
    queue,                  \* asyncio.Queue
    error,                  \* the error list shared by worker and consumer
    wpc,                    \* worker thread position
    pending,                \* item handed to the loop by run_coroutine_threadsafe
    cpc,                    \* consumer (async generator) position
    produced,               \* fragments send_message_stream has yielded so far
    outcome,                \* how send_message_stream ended: running | ok | raised
    delivered               \* fragments stream_chat has yielded to its caller

envVars    == <<HAS_GRAPH_BACKEND, config, ontology_file, data_dir>>
svcVars    == <<phase, using_stub, has_engine, svc_documents, knowledge_graph,
                chat_session, model_config, ontology, last_ingest_summary>>
stubVars   == <<engine_documents, chat_history, task>>
bridgeVars == <<queue, error, wpc, pending, cpc, produced, outcome, delivered>>
vars       == <<envVars, svcVars, result, stubVars, bridgeVars>>

\* Python's None, for a field that otherwise holds a string.
None == "None"
\* Python's None, for a field that otherwise holds an object: the field is a
\* sequence of at most one object.
NoObject == <<>>

\* The exception classes a caller can tell apart.
CfgError == "GraphRAGConfigurationError"
OtherError == "Exception"

(***************************************************************************)
(* Text: a str is a sequence of one-character strings                      *)
(***************************************************************************)

\* The characters str.split() and str.strip() treat as whitespace.
Whitespace == {" ", "\n", "\t"}

UpperCase ==
    <<"A","B","C","D","E","F","G","H","I","J","K","L","M",
      "N","O","P","Q","R","S","T","U","V","W","X","Y","Z">>
LowerCase ==
    <<"a","b","c","d","e","f","g","h","i","j","k","l","m",
      "n","o","p","q","r","s","t","u","v","w","x","y","z">>

LowerChar(ch) ==
    IF \E i \in DOMAIN UpperCase : UpperCase[i] = ch
      THEN LowerCase[CHOOSE i \in DOMAIN UpperCase : UpperCase[i] = ch]
      ELSE ch

\* str.lower()
Lower(s) == [i \in 1..Len(s) |-> LowerChar(s[i])]

\* str.split(): the maximal runs of non-whitespace characters, in order.
RECURSIVE SplitFrom(_, _, _)
SplitFrom(s, i, cur) ==
    IF i > Len(s)
      THEN (IF cur = <<>> THEN <<>> ELSE <<cur>>)
      ELSE IF s[i] \in Whitespace
             THEN (IF cur = <<>> THEN <<>> ELSE <<cur>>) \o SplitFrom(s, i + 1, <<>>)
             ELSE SplitFrom(s, i + 1, Append(cur, s[i]))

Split(s) == SplitFrom(s, 1, <<>>)

\* str.strip()
RECURSIVE LStrip(_)
LStrip(s) == IF s # <<>> /\ Head(s) \in Whitespace THEN LStrip(Tail(s)) ELSE s

RECURSIVE RStrip(_)
RStrip(s) ==
    IF s # <<>> /\ s[Len(s)] \in Whitespace
      THEN RStrip(SubSeq(s, 1, Len(s) - 1))
      ELSE s

Strip(s) == RStrip(LStrip(s))

\* str.splitlines(): the lines between line breaks; a final line break adds
\* no empty line.
RECURSIVE SplitLinesFrom(_, _, _)
SplitLinesFrom(s, i, cur) ==
    IF i > Len(s)
      THEN (IF cur = <<>> THEN <<>> ELSE <<cur>>)
      ELSE IF s[i] = "\n"
             THEN <<cur>> \o SplitLinesFrom(s, i + 1, <<>>)
             ELSE SplitLinesFrom(s, i + 1, Append(cur, s[i]))

SplitLines(s) == SplitLinesFrom(s, 1, <<>>)

\* sub in s
Contains(sub, s) ==
    \E i \in 0..(Len(s) - Len(sub)) : SubSeq(s, i + 1, i + Len(sub)) = sub

\* sep.join(parts)
RECURSIVE Join(_, _)
Join(sep, parts) ==
    IF parts = <<>> THEN <<>>
    ELSE IF Len(parts) = 1 THEN parts[1]
    ELSE parts[1] \o sep \o Join(sep, Tail(parts))

Digits == <<"0","1","2","3","4","5","6","7","8","9">>

\* str(n) for an int n >= 0, as the f-string formats a score.
RECURSIVE IntToStr(_)
IntToStr(n) ==
    IF n < 10 THEN <<Digits[n + 1]>>
    ELSE IntToStr(n \div 10) \o <<Digits[(n % 10) + 1]>>

\* seq[0:k]
Take(seq, k) == SubSeq(seq, 1, IF Len(seq) < k THEN Len(seq) ELSE k)

(***************************************************************************)
(* Document and the insertion-ordered dict of documents                    *)
(***************************************************************************)

\* Document(name, content, metadata)
Document(name, content) ==
    [name |-> name, content |-> content, metadata |-> [source |-> "txt"]]

\* The names and contents the documents of the explored runs are made of.
N1 == <<"n", "1">>
N2 == <<"n", "2">>
ContentAb == <<"A", "b">>
ContentB == <<"b">>
ContentLines == <<"a", "\n", "\n", "c">>

\* A dict whose assignment would keep the value a key already has. Not the
\* code: DictSet below is.
DictSetKeepFirst(d, doc) ==
    IF \E i \in DOMAIN d : d[i].name = doc.name THEN d ELSE Append(d, doc)

\* d[doc.name] = doc on a dict kept as the sequence of its values: a new key
\* goes last, an existing key keeps its place and takes the new value.
DictSet(d, doc) ==
    IF \E i \in DOMAIN d : d[i].name = doc.name
      THEN [i \in DOMAIN d |-> IF d[i].name = doc.name THEN doc ELSE d[i]]
      ELSE Append(d, doc)

\* The loop of ingest: one assignment per document, in order.
RECURSIVE DictSetAll(_, _)
DictSetAll(d, docs) ==
    IF docs = <<>> THEN d ELSE DictSetAll(DictSet(d, Head(docs)), Tail(docs))

\* A store a dict can hold: no name twice.
UniqueNames(d) == \A i, j \in DOMAIN d : d[i].name = d[j].name => i = j

(***************************************************************************)
(* StubGraphRAGChatEngine                                                  *)
(***************************************************************************)

MsgNoKnowledge ==
    <<"N","o"," ","k","n","o","w","l","e","d","g","e"," ","a","v","a","i",
      "l","a","b","l","e"," ","y","e","t","."," ","P","l","e","a","s","e",
      " ","i","n","g","e","s","t"," ","d","o","c","u","m","e","n","t","s",
      " ","a","n","d"," ","t","r","y"," ","a","g","a","i","n",".">>
MsgNoMatchHead ==
    <<"N","o"," ","d","i","r","e","c","t"," ","m","a","t","c","h"," ","f",
      "o","u","n","d"," ","f","o","r"," ","'">>
MsgNoMatchMid ==
    <<"'","."," ","A","v","a","i","l","a","b","l","e"," ","d","o","c","u",
      "m","e","n","t","s",":"," ">>
MsgPromptHead ==
    <<"P","r","o","m","p","t",":"," ">>
MsgTopSources ==
    <<"\n","T","o","p"," ","s","o","u","r","c","e","s",":"," ">>
MsgScoreOpen ==
    <<" ","(","s","c","o","r","e"," ">>
MsgScoreClose ==
    <<")",":"," ">>

\* The number of documents _build_highlights keeps.
TopK == 3

\* {token.lower() for token in prompt.split() if token}
Tokens(prompt) == {Lower(Split(prompt)[i]) : i \in DOMAIN Split(prompt)}

\* A score that would compare the tokens with the content as written, without
\* lower-casing it. Not the code: Score below is.
ScoreCaseSensitive(tokens, document) ==
    Cardinality({t \in tokens : Contains(t, document.content)})

\* sum(1 for token in tokens if token in document.content.lower())
Score(tokens, document) ==
    Cardinality({t \in tokens : Contains(t, Lower(document.content))})

\* The loop over the store: the documents with a score, in store order.
RECURSIVE Ranked(_, _)
Ranked(tokens, docs) ==
    IF docs = <<>> THEN <<>>
    ELSE (IF Score(tokens, Head(docs)) # 0
            THEN <<[document |-> Head(docs), score |-> Score(tokens, Head(docs))]>>
            ELSE <<>>)
         \o Ranked(tokens, Tail(docs))

\* A sort that would put an item before the items of equal score already
\* placed. Not the code: InsertByScore below is.
InsertByScoreTiesFirst(sorted, item) ==
    LET before == {i \in DOMAIN sorted : sorted[i].score > item.score}
        k == Cardinality(before)
    IN  SubSeq(sorted, 1, k) \o <<item>> \o SubSeq(sorted, k + 1, Len(sorted))

\* list.sort(key=score, reverse=True): stable, so an item goes after every
\* item already placed whose score is at least its own.
InsertByScore(sorted, item) ==
    LET before == {i \in DOMAIN sorted : sorted[i].score >= item.score}
        k == Cardinality(before)
    IN  SubSeq(sorted, 1, k) \o <<item>> \o SubSeq(sorted, k + 1, Len(sorted))

RECURSIVE SortInto(_, _)
SortInto(sorted, rest) ==
    IF rest = <<>> THEN sorted
    ELSE SortInto(InsertByScore(sorted, Head(rest)), Tail(rest))

SortByScoreDesc(ranked) == SortInto(<<>>, ranked)

\* The ranking without the final slice ranked[:3]. Not the code:
\* _build_highlights below is.
_build_highlights_untruncated(prompt, documents) ==
    IF Tokens(prompt) = {} \/ documents = <<>>
      THEN <<>>
      ELSE SortByScoreDesc(Ranked(Tokens(prompt), documents))

\* StubGraphRAGChatEngine._build_highlights on the store `documents`.
_build_highlights(prompt, documents) ==
    IF Tokens(prompt) = {} \/ documents = <<>>
      THEN <<>>
      ELSE Take(SortByScoreDesc(Ranked(Tokens(prompt), documents)), TopK)

\* The excerpt of one document: the first two lines of the stripped content,
\* each stripped, the empty ones dropped, joined by " / ".
Excerpt(content) ==
    LET snippet == Take(SplitLines(Strip(content)), 2)
        parts   == [i \in DOMAIN snippet |-> Strip(snippet[i])]
    IN  Join(<<" ", "/", " ">>, SelectSeq(parts, LAMBDA p : p # <<>>))

SummaryLine(h) ==
    h.document.name \o MsgScoreOpen \o IntToStr(h.score) \o MsgScoreClose
        \o Excerpt(h.document.content)

\* A rendering that would test the ranking before the store. Not the code:
\* _render_answer below is.
_render_answer_ranking_first(prompt, highlights, documents) ==
    IF highlights = <<>>
      THEN MsgNoMatchHead \o prompt \o MsgNoMatchMid
             \o Join(<<",", " ">>, [i \in DOMAIN documents |-> documents[i].name])
             \o <<".">>
    ELSE IF documents = <<>> THEN MsgNoKnowledge
    ELSE MsgPromptHead \o prompt \o MsgTopSources
             \o Join(<<" ", "|", " ">>, [i \in DOMAIN highlights |-> SummaryLine(highlights[i])])

\* StubGraphRAGChatEngine._render_answer on the store `documents`.
_render_answer(prompt, highlights, documents) ==
    IF documents = <<>> THEN MsgNoKnowledge
    ELSE IF highlights = <<>>
      THEN MsgNoMatchHead \o prompt \o MsgNoMatchMid
             \o Join(<<",", " ">>, [i \in DOMAIN documents |-> documents[i].name])
             \o <<".">>
    ELSE MsgPromptHead \o prompt \o MsgTopSources
             \o Join(<<" ", "|", " ">>, [i \in DOMAIN highlights |-> SummaryLine(highlights[i])])

\* The fragments of stream_chat: chunk + " " for each chunk of answer.split().
Chunks(answer) == [i \in DOMAIN Split(answer) |-> Append(Split(answer)[i], " ")]

\* Concurrently scheduled stream_chat generators of one engine.
Tasks == {1, 2}

\* A generator that has not been started.
TaskIdle == [pc |-> "idle", prompt |-> <<>>, chunks |-> <<>>, sent |-> 0]

\* Session-log entries after which no further chat is started.
MaxHistory == 3

\* A summary that would count the names added instead of the documents
\* passed. Not the code: StubIngestSummary below is.
StubIngestSummaryNet(documents, before, after) ==
    [documents_ingested |-> Len(after) - Len(before),
     total_documents    |-> Len(after)]

\* The summary ingest returns: the loop counter and len(self._documents).
StubIngestSummary(documents, before, after) ==
    [documents_ingested |-> Len(documents),
     total_documents    |-> Len(after)]

\* StubGraphRAGChatEngine.ingest(documents)
StubIngest(documents) ==
    /\ engine_documents' = DictSetAll(engine_documents, documents)
    /\ result' = [op |-> "ingest", arg |-> documents, raised |-> None,
                  value |-> StubIngestSummary(documents, engine_documents,
                                              engine_documents')]
    /\ UNCHANGED <<chat_history, task>>

\* StubGraphRAGChatEngine.get_documents()
StubGetDocuments ==
    /\ result' = [op |-> "get_documents", arg |-> None, raised |-> None,
                  value |-> engine_documents]
    /\ UNCHANGED <<engine_documents, chat_history, task>>

\* A stream_chat that would number its answers by the entries already in the
\* session log. Not the code: StubStreamStart below is.
StubStreamStartNumbered(t, prompt) ==
    /\ task[t].pc \in {"idle", "done"}
    /\ Len(chat_history) < MaxHistory
    /\ LET highlights == _build_highlights(prompt, engine_documents)
           answer     == _render_answer(prompt, highlights, engine_documents)
                            \o <<" ">> \o IntToStr(Len(chat_history))
       IN  /\ chat_history' = chat_history
                  \o <<[role |-> "user", content |-> prompt],
                       [role |-> "assistant", content |-> answer]>>
           /\ task' = [task EXCEPT ![t] =
                          [pc     |-> IF Chunks(answer) = <<>> THEN "done" ELSE "sleep",
                           prompt |-> prompt,
                           chunks |-> Chunks(answer),
                           sent   |-> 0]]
    /\ result' = [op |-> "stream_chat", arg |-> prompt, raised |-> None, value |-> t]
    /\ UNCHANGED engine_documents

\* A stream_chat that would log the answer ahead of the prompt. Not the
\* code: StubStreamBegin below is.
StubStreamBeginAnswerFirst(t, prompt) ==
    /\ task[t].pc \in {"idle", "done"}
    /\ Len(chat_history) < MaxHistory
    /\ LET highlights == _build_highlights(prompt, engine_documents)
           answer     == _render_answer(prompt, highlights, engine_documents)
       IN  /\ chat_history' = chat_history
                  \o <<[role |-> "assistant", content |-> answer],
                       [role |-> "user", content |-> prompt]>>
           /\ task' = [task EXCEPT ![t] =
                          [pc     |-> IF Chunks(answer) = <<>> THEN "done" ELSE "sleep",
                           prompt |-> prompt,
                           chunks |-> Chunks(answer),
                           sent   |-> 0]]
    /\ UNCHANGED engine_documents

\* StubGraphRAGChatEngine.stream_chat(prompt), from the first __anext__ to
\* the first await: both log entries are appended and the answer is split
\* before any fragment is yielded.
StubStreamBegin(t, prompt) ==
    /\ task[t].pc \in {"idle", "done"}
    /\ Len(chat_history) < MaxHistory
    /\ LET highlights == _build_highlights(prompt, engine_documents)
           answer     == _render_answer(prompt, highlights, engine_documents)
       IN  /\ chat_history' = chat_history
                  \o <<[role |-> "user", content |-> prompt],
                       [role |-> "assistant", content |-> answer]>>
           /\ task' = [task EXCEPT ![t] =
                          [pc     |-> IF Chunks(answer) = <<>> THEN "done" ELSE "sleep",
                           prompt |-> prompt,
                           chunks |-> Chunks(answer),
                           sent   |-> 0]]
    /\ UNCHANGED engine_documents

\* The same, with the call recorded as the operation just made.
StubStreamStart(t, prompt) ==
    /\ StubStreamBegin(t, prompt)
    /\ result' = [op |-> "stream_chat", arg |-> prompt, raised |-> None, value |-> t]

\* A stream_chat that would look at the store at every resumption and stop
\* once it is empty. Not the code: StubStreamYield below is.
StubStreamYieldWhileStored(t) ==
    /\ task[t].pc = "sleep"
    /\ task' = [task EXCEPT ![t].sent = @ + 1,
                            ![t].pc = IF \/ task[t].sent + 1 = Len(task[t].chunks)
                                         \/ engine_documents = <<>>
                                        THEN "done" ELSE "sleep"]
    /\ result' = [op |-> "fragment", arg |-> t, raised |-> None,
                  value |-> task[t].chunks[task[t].sent + 1]]
    /\ UNCHANGED <<engine_documents, chat_history>>

\* stream_chat resumed after await asyncio.sleep(0): yields the next fragment
\* and, once the caller asks again, reaches the next await or the end.
StubStreamYield(t) ==
    /\ task[t].pc = "sleep"
    /\ task' = [task EXCEPT ![t].sent = @ + 1,
                            ![t].pc = IF task[t].sent + 1 = Len(task[t].chunks)
                                        THEN "done" ELSE "sleep"]
    /\ result' = [op |-> "fragment", arg |-> t, raised |-> None,
                  value |-> task[t].chunks[task[t].sent + 1]]
    /\ UNCHANGED <<engine_documents, chat_history>>

\* A reset that would clear the store and leave the session log. Not the
\* code: StubReset below is.
StubResetDocumentsOnly ==
    /\ engine_documents' = <<>>
    /\ result' = [op |-> "reset", arg |-> None, raised |-> None, value |-> None]
    /\ UNCHANGED <<chat_history, task>>

\* StubGraphRAGChatEngine.reset(): a plain function, no await between the
\* two clears.
StubReset ==
    /\ engine_documents' = <<>>
    /\ chat_history' = <<>>
    /\ result' = [op |-> "reset", arg |-> None, raised |-> None, value |-> None]
    /\ UNCHANGED task

(***************************************************************************)
(* The production streaming bridge: GraphRAGService.stream_chat            *)
(***************************************************************************)

\* Concurrent stream_chat calls on one service.
Calls == {1, 2}
\* Fragments the backend's send_message_stream may yield.
Frags == {"A", "B"}
\* Longest producer run explored: after MaxFrags fragments the producer ends.
MaxFrags == 2

\* No coroutine of this call is waiting on the loop.
NoItem == "NoItem"

\* A queue that would hand out the newest item first. Not the code: QueuePut
\* below is.
LifoQueuePut(q, item) == <<item>> \o q

\* queue.put(item) on the unbounded asyncio.Queue, run by the event loop.
QueuePut(q, item) == Append(q, item)

\* The state of a call that has not been made.
BridgeIdle ==
    /\ queue = [c \in Calls |-> <<>>]
    /\ error = [c \in Calls |-> <<>>]
    /\ wpc = [c \in Calls |-> "idle"]
    /\ pending = [c \in Calls |-> NoItem]
    /\ cpc = [c \in Calls |-> "idle"]
    /\ produced = [c \in Calls |-> <<>>]
    /\ outcome = [c \in Calls |-> "running"]
    /\ delivered = [c \in Calls |-> <<>>]

\* stream_chat, production branch with an active session: a fresh queue and
\* error list, the worker thread started, the consumer about to await get().
StreamChatBegin(c) ==
    /\ phase = "ready" /\ ~using_stub
    /\ chat_session # NoObject
    /\ cpc[c] = "idle"
    /\ queue' = [queue EXCEPT ![c] = <<>>]
    /\ error' = [error EXCEPT ![c] = <<>>]
    /\ wpc' = [wpc EXCEPT ![c] = "iter"]
    /\ cpc' = [cpc EXCEPT ![c] = "get"]
    /\ UNCHANGED <<pending, produced, outcome, delivered>>
    /\ UNCHANGED <<envVars, svcVars, stubVars>>

\* The same, with the call recorded as the operation just made.
StreamChatStart(c) ==
    /\ StreamChatBegin(c)
    /\ result' = [op |-> "stream_chat", arg |-> c, raised |-> None, value |-> None]

\* worker: the for loop asks send_message_stream for its next chunk and gets
\* one; run_coroutine_threadsafe hands queue.put(chunk) to the loop and the
\* thread blocks in .result().
WorkerChunk(c) ==
    /\ wpc[c] = "iter"
    /\ Len(produced[c]) < MaxFrags
    /\ \E f \in Frags :
        /\ produced' = [produced EXCEPT ![c] = Append(@, f)]
        /\ pending' = [pending EXCEPT ![c] = f]
    /\ wpc' = [wpc EXCEPT ![c] = "put_wait"]
    /\ UNCHANGED <<queue, error, cpc, outcome, delivered>>
    /\ UNCHANGED <<envVars, svcVars, result, stubVars>>

\* worker: send_message_stream is exhausted; control falls to the finally.
WorkerExhausted(c) ==
    /\ wpc[c] = "iter"
    /\ outcome' = [outcome EXCEPT ![c] = "ok"]
    /\ wpc' = [wpc EXCEPT ![c] = "finally"]
    /\ UNCHANGED <<queue, error, pending, cpc, produced, delivered>>
    /\ UNCHANGED <<envVars, svcVars, result, stubVars>>

\* A worker whose except clause would not record the exception. Not the
\* code: WorkerRaise below is.
WorkerRaiseUnrecorded(c) ==
    /\ wpc[c] = "iter"
    /\ outcome' = [outcome EXCEPT ![c] = "raised"]
    /\ wpc' = [wpc EXCEPT ![c] = "finally"]
    /\ UNCHANGED <<queue, error, pending, cpc, produced, delivered>>
    /\ UNCHANGED <<envVars, svcVars, result, stubVars>>

\* worker: send_message_stream raises; the except clause records the
\* exception, then control falls to the finally.
WorkerRaise(c) ==
    /\ wpc[c] = "iter"
    /\ outcome' = [outcome EXCEPT ![c] = "raised"]
    /\ error' = [error EXCEPT ![c] = Append(@, "exc")]
    /\ wpc' = [wpc EXCEPT ![c] = "finally"]
    /\ UNCHANGED <<queue, pending, cpc, produced, delivered>>
    /\ UNCHANGED <<envVars, svcVars, result, stubVars>>

\* A worker that would enqueue the sentinel only when nothing was raised.
\* Not the code: WorkerFinally below is.
WorkerFinallyOnSuccessOnly(c) ==
    /\ wpc[c] = "finally"
    /\ IF error[c] = <<>>
         THEN /\ pending' = [pending EXCEPT ![c] = None]
              /\ wpc' = [wpc EXCEPT ![c] = "fin_wait"]
         ELSE /\ wpc' = [wpc EXCEPT ![c] = "done"]
              /\ UNCHANGED pending
    /\ UNCHANGED <<queue, error, cpc, produced, outcome, delivered>>
    /\ UNCHANGED <<envVars, svcVars, result, stubVars>>

\* worker: the finally clause hands queue.put(None) to the loop and blocks.
WorkerFinally(c) ==
    /\ wpc[c] = "finally"
    /\ pending' = [pending EXCEPT ![c] = None]
    /\ wpc' = [wpc EXCEPT ![c] = "fin_wait"]
    /\ UNCHANGED <<queue, error, cpc, produced, outcome, delivered>>
    /\ UNCHANGED <<envVars, svcVars, result, stubVars>>

\* An event loop whose put would go to one queue shared by all calls. Not
\* the code: LoopPut below is.
LoopPutSharedQueue(c) ==
    /\ wpc[c] \in {"put_wait", "fin_wait"}
    /\ pending[c] # NoItem
    /\ queue' = [queue EXCEPT ![1] = QueuePut(@, pending[c])]
    /\ pending' = [pending EXCEPT ![c] = NoItem]
    /\ wpc' = [wpc EXCEPT ![c] = IF wpc[c] = "put_wait" THEN "iter" ELSE "done"]
    /\ UNCHANGED <<error, cpc, produced, outcome, delivered>>
    /\ UNCHANGED <<envVars, svcVars, result, stubVars>>

\* event loop: runs the coroutine queue.put(item) the worker scheduled; the
\* future completes, so the worker's .result() returns and the thread goes on
\* (to the next iteration, or out of the finally).
LoopPut(c) ==
    /\ wpc[c] \in {"put_wait", "fin_wait"}
    /\ pending[c] # NoItem
    /\ queue' = [queue EXCEPT ![c] = QueuePut(@, pending[c])]
    /\ pending' = [pending EXCEPT ![c] = NoItem]
    /\ wpc' = [wpc EXCEPT ![c] = IF wpc[c] = "put_wait" THEN "iter" ELSE "done"]
    /\ UNCHANGED <<error, cpc, produced, outcome, delivered>>
    /\ UNCHANGED <<envVars, svcVars, result, stubVars>>

\* consumer: await queue.get() returns an item; None breaks the loop and the
\* recorded error, if any, is raised; any other item is yielded to the caller.
ConsumerGet(c) ==
    /\ cpc[c] = "get"
    /\ queue[c] # <<>>
    /\ queue' = [queue EXCEPT ![c] = Tail(@)]
    /\ IF Head(queue[c]) = None
         THEN /\ cpc' = [cpc EXCEPT ![c] =
                           IF error[c] # <<>> THEN "raised" ELSE "done"]
              /\ UNCHANGED delivered
         ELSE /\ delivered' = [delivered EXCEPT ![c] = Append(@, Head(queue[c]))]
              /\ UNCHANGED cpc
    /\ UNCHANGED <<error, wpc, pending, produced, outcome>>
    /\ UNCHANGED <<envVars, svcVars, result, stubVars>>

(***************************************************************************)
(* GraphRAGService: construction, ingest, get_documents, reset             *)
(***************************************************************************)

\* What the backend calls made during one operation do. LiteModel is caught
\* as ValueError only; every other call is caught as Exception.
LiteOutcomes == {"ok", "ValueError", "Exception"}
CallOutcomes == {"ok", "Exception"}
AllOutcomes ==
    [lite : LiteOutcomes, ollama : CallOutcomes, kg : CallOutcomes,
     kg_ontology : {None, "ontology"}, delete : CallOutcomes,
     build : CallOutcomes, process : CallOutcomes, session : CallOutcomes]

\* The calls are made one after the other and the first that raises ends the
\* operation, so the outcome of a call that is never made is left at "ok".
InitFails(o) == o.lite # "ok" \/ o.ollama # "ok" \/ o.kg # "ok"
FirstFailureOnly(o) ==
    /\ o.lite # "ok" => o.ollama = "ok" /\ o.kg = "ok"
    /\ o.ollama # "ok" => o.kg = "ok"
    /\ InitFails(o) => /\ o.kg_ontology = None
                       /\ o.build = "ok" /\ o.process = "ok" /\ o.session = "ok"
    /\ o.build # "ok" => o.process = "ok" /\ o.session = "ok"
    /\ o.process # "ok" => o.session = "ok"

\* The outcomes of the calls ingest makes, reset makes, and __init__ makes.
IngestOutcomes == {o \in AllOutcomes : FirstFailureOnly(o)}
ResetOutcomes ==
    {o \in IngestOutcomes : o.build = "ok" /\ o.process = "ok" /\ o.session = "ok"}
InitOutcomes == {o \in ResetOutcomes : o.delete = "ok"}

\* Why _initialise_real_backend did not complete, for the record of a call.
InitFailure(o) ==
    IF ~HAS_GRAPH_BACKEND THEN "sdk_not_loaded"
    ELSE IF o.lite # "ok" THEN "lite_" \o o.lite
    ELSE IF o.ollama # "ok" THEN "ollama"
    ELSE IF o.kg # "ok" THEN "falkordb"
    ELSE None

\* Successful chat_session() calls on one KnowledgeGraph object explored.
MaxSessions == 2

\* The fields an operation reads and assigns, with the exception it ends in.
SvcState ==
    [model_config |-> model_config, knowledge_graph |-> knowledge_graph,
     ontology |-> ontology, chat_session |-> chat_session,
     documents |-> svc_documents, ontology_file |-> ontology_file,
     raised |-> None]

\* _load_existing_ontology: a missing, empty or corrupt file is no ontology.
_load_existing_ontology(file) ==
    IF file \in {None, "corrupt"} THEN None ELSE file

\* _initialise_real_backend, the backend calls behaving as `o` says.
_initialise_real_backend(s, o) ==
    IF ~HAS_GRAPH_BACKEND THEN [s EXCEPT !.raised = CfgError]
    ELSE IF o.lite = "ValueError" THEN [s EXCEPT !.raised = CfgError]
    ELSE IF o.lite = "Exception" THEN [s EXCEPT !.raised = OtherError]
    ELSE IF o.ollama # "ok" THEN [s EXCEPT !.raised = CfgError]
    ELSE IF o.kg # "ok"
      THEN [s EXCEPT !.model_config = "model_config", !.raised = CfgError]
    ELSE LET loaded == _load_existing_ontology(s.ontology_file)
             kg_ont == IF loaded # None THEN loaded ELSE o.kg_ontology
         IN  [s EXCEPT !.model_config = "model_config",
                       !.knowledge_graph = <<[ontology |-> kg_ont, sessions |-> 0]>>,
                       !.ontology = IF kg_ont # None THEN kg_ont ELSE loaded,
                       !.chat_session = NoObject,
                       !.documents = <<>>]

\* A resolution that would ignore the flag of the configuration. Not the
\* code: ResolveUsingStub below is.
ResolveUsingStubArgOnly(force_stub) == force_stub = "True"

\* self._using_stub as __init__ first resolves it: the keyword argument when
\* given, the configuration's flag otherwise.
ResolveUsingStub(force_stub) ==
    IF force_stub # None THEN force_stub = "True" ELSE config.force_stub

\* GraphRAGService.__init__(config, force_stub=force_stub)
Construct ==
    /\ phase = "new"
    /\ \E force_stub \in {None, "True", "False"}, o \in InitOutcomes :
        LET stub0 == ResolveUsingStub(force_stub) \/ ~HAS_GRAPH_BACKEND
            s     == IF stub0 THEN SvcState ELSE _initialise_real_backend(SvcState, o)
        IN  /\ using_stub' = (stub0 \/ s.raised = CfgError)
            /\ has_engine' = (stub0 \/ s.raised = CfgError)
            /\ phase' = IF s.raised = OtherError THEN "ctor_raised" ELSE "ready"
            /\ model_config' = s.model_config
            /\ knowledge_graph' = s.knowledge_graph
            /\ ontology' = s.ontology
            /\ chat_session' = s.chat_session
            /\ svc_documents' = s.documents
            /\ result' = [op |-> "__init__", arg |-> force_stub,
                          raised |-> IF s.raised = OtherError THEN OtherError ELSE None,
                          value |-> [init_attempted |-> ~stub0,
                                     failure |-> IF stub0 THEN None ELSE InitFailure(o)]]
    /\ engine_documents' = <<>>
    /\ chat_history' = <<>>
    /\ UNCHANGED <<envVars, last_ingest_summary, task, bridgeVars>>

\* _build_ontology, then the two assignments of ingest that install it.
BuildOntology(s, o) ==
    IF s.model_config = None THEN [s EXCEPT !.raised = CfgError]
    ELSE IF o.build # "ok" THEN [s EXCEPT !.raised = CfgError]
    ELSE [s EXCEPT !.ontology_file = "ontology",
                   !.ontology = "ontology",
                   !.knowledge_graph = <<[s.knowledge_graph[1] EXCEPT !.ontology = "ontology"]>>]

\* GraphRAGService.reset, production branch: the deletion is attempted on the
\* graph at hand (o.delete) and its failure is logged and swallowed, then the
\* backend is built anew.
ResetProd(s, o) == _initialise_real_backend(s, o)

DocumentNames(documents) == [i \in DOMAIN documents |-> documents[i].name]

\* A summary whose total would be the number of documents passed. Not the
\* code: ProdSummary below is.
ProdSummaryCountingPassed(documents, total, refreshed) ==
    [documents_ingested |-> Len(documents), total_documents |-> Len(documents),
     graph_name |-> "kg_name", ontology_path |-> "ontology_path",
     ontology_refreshed |-> refreshed, using_stub |-> FALSE,
     document_names |-> DocumentNames(documents)]

\* The summary of a production ingest.
ProdSummary(documents, total, refreshed) ==
    [documents_ingested |-> Len(documents), total_documents |-> total,
     graph_name |-> "kg_name", ontology_path |-> "ontology_path",
     ontology_refreshed |-> refreshed, using_stub |-> FALSE,
     document_names |-> DocumentNames(documents)]

\* A production ingest that would merge the new documents into the map, as
\* the fallback engine does. Not the code: IngestProd below is.
IngestProdMerging(s, documents, o) ==
    IF s.knowledge_graph = NoObject \/ s.model_config = None
      THEN [s |-> [s EXCEPT !.raised = CfgError], summary |-> None]
    ELSE IF documents = <<>>
      THEN [s |-> s, summary |-> ProdSummary(documents, Len(s.documents), FALSE)]
    ELSE
      LET s1 == IF config.reset_before_ingest THEN ResetProd(s, o) ELSE s
          refresh == config.auto_refresh_ontology \/ s1.ontology = None
          s2 == IF s1.raised # None THEN s1
                ELSE IF refresh THEN BuildOntology(s1, o) ELSE s1
          s3 == IF s2.raised # None THEN s2
                ELSE IF o.process # "ok" THEN [s2 EXCEPT !.raised = CfgError]
                ELSE [s2 EXCEPT !.documents = DictSetAll(s2.documents, documents)]
          s4 == IF s3.raised # None THEN s3
                ELSE IF o.session # "ok" THEN [s3 EXCEPT !.raised = OtherError]
                ELSE [s3 EXCEPT
                        !.chat_session = <<[id |-> s3.knowledge_graph[1].sessions + 1]>>,
                        !.knowledge_graph =
                            <<[s3.knowledge_graph[1] EXCEPT !.sessions = @ + 1]>>]
      IN  [s |-> s4,
           summary |-> IF s4.raised # None THEN None
                       ELSE ProdSummary(documents, Len(s4.documents), refresh)]

\* A production ingest that would assign the document map before it
\* processes the sources. Not the code: IngestProd below is.
IngestProdAssigningFirst(s, documents, o) ==
    IF s.knowledge_graph = NoObject \/ s.model_config = None
      THEN [s |-> [s EXCEPT !.raised = CfgError], summary |-> None]
    ELSE IF documents = <<>>
      THEN [s |-> s, summary |-> ProdSummary(documents, Len(s.documents), FALSE)]
    ELSE
      LET s1 == IF config.reset_before_ingest THEN ResetProd(s, o) ELSE s
          refresh == config.auto_refresh_ontology \/ s1.ontology = None
          s2 == IF s1.raised # None THEN s1
                ELSE IF refresh THEN BuildOntology(s1, o) ELSE s1
          s3 == IF s2.raised # None THEN s2
                ELSE IF o.process # "ok"
                  THEN [s2 EXCEPT !.raised = CfgError,
                                  !.documents = DictSetAll(<<>>, documents)]
                ELSE [s2 EXCEPT !.documents = DictSetAll(<<>>, documents)]
          s4 == IF s3.raised # None THEN s3
                ELSE IF o.session # "ok" THEN [s3 EXCEPT !.raised = OtherError]
                ELSE [s3 EXCEPT
                        !.chat_session = <<[id |-> s3.knowledge_graph[1].sessions + 1]>>,
                        !.knowledge_graph =
                            <<[s3.knowledge_graph[1] EXCEPT !.sessions = @ + 1]>>]
      IN  [s |-> s4,
           summary |-> IF s4.raised # None THEN None
                       ELSE ProdSummary(documents, Len(s4.documents), refresh)]

\* GraphRAGService.ingest, production branch: the fields after the call and
\* the summary returned (None when the call raises).
IngestProd(s, documents, o) ==
    IF s.knowledge_graph = NoObject \/ s.model_config = None
      THEN [s |-> [s EXCEPT !.raised = CfgError], summary |-> None]
    ELSE IF documents = <<>>
      THEN [s |-> s, summary |-> ProdSummary(documents, Len(s.documents), FALSE)]
    ELSE
      LET s1 == IF config.reset_before_ingest THEN ResetProd(s, o) ELSE s
          refresh == config.auto_refresh_ontology \/ s1.ontology = None
          s2 == IF s1.raised # None THEN s1
                ELSE IF refresh THEN BuildOntology(s1, o) ELSE s1
          s3 == IF s2.raised # None THEN s2
                ELSE IF o.process # "ok" THEN [s2 EXCEPT !.raised = CfgError]
                ELSE [s2 EXCEPT !.documents = DictSetAll(<<>>, documents)]
          s4 == IF s3.raised # None THEN s3
                ELSE IF o.session # "ok" THEN [s3 EXCEPT !.raised = OtherError]
                ELSE [s3 EXCEPT
                        !.chat_session = <<[id |-> s3.knowledge_graph[1].sessions + 1]>>,
                        !.knowledge_graph =
                            <<[s3.knowledge_graph[1] EXCEPT !.sessions = @ + 1]>>]
      IN  [s |-> s4,
           summary |-> IF s4.raised # None THEN None
                       ELSE ProdSummary(documents, Len(s4.documents), refresh)]

\* The facade's additions to the stub engine's summary.
StubModeSummary(documents, summary) ==
    [documents_ingested |-> summary.documents_ingested,
     total_documents |-> summary.total_documents,
     using_stub |-> TRUE, graph_name |-> None, ontology_path |-> None,
     ontology_refreshed |-> FALSE,
     document_names |-> DocumentNames(documents)]

\* Assign the service's fields from the record an operation produced.
InstallSvcState(s) ==
    /\ model_config' = s.model_config
    /\ knowledge_graph' = s.knowledge_graph
    /\ ontology' = s.ontology
    /\ chat_session' = s.chat_session
    /\ svc_documents' = s.documents
    /\ ontology_file' = s.ontology_file

\* Document lists passed to the facade's ingest.
SvcBatches ==
    {<<>>, <<Document(N1, ContentAb)>>,
     <<Document(N1, ContentB), Document(N2, ContentB)>>,
     <<Document(N2, ContentAb), Document(N2, ContentB)>>}
SvcPrompts == {<<"a">>}
SvcTasks == {1}
SvcCalls == {1}

\* The outcomes that matter to an ingest that does not reset first: only
\* the ontology build, the source processing and the new session are called.
IngestOutcomesNoReset ==
    {o \in IngestOutcomes : ~InitFails(o) /\ o.delete = "ok" /\ o.kg_ontology = None}

\* GraphRAGService.ingest(documents), fallback mode
SvcIngestStub ==
    /\ phase = "ready" /\ using_stub
    /\ \E documents \in SvcBatches :
        /\ engine_documents' = DictSetAll(engine_documents, documents)
        /\ LET summary == StubModeSummary(documents,
                              StubIngestSummary(documents, engine_documents,
                                                engine_documents'))
           IN  /\ last_ingest_summary' = summary
               /\ result' = [op |-> "ingest", arg |-> documents,
                             raised |-> None, value |-> summary]
    /\ UNCHANGED <<envVars, phase, using_stub, has_engine, svc_documents,
                   knowledge_graph, chat_session, model_config, ontology,
                   chat_history, task, bridgeVars>>

\* GraphRAGService.ingest(documents), production mode
SvcIngestProd ==
    /\ phase = "ready" /\ ~using_stub
    /\ knowledge_graph # NoObject => knowledge_graph[1].sessions < MaxSessions
    /\ \E documents \in SvcBatches,
          o \in (IF config.reset_before_ingest THEN IngestOutcomes
                                               ELSE IngestOutcomesNoReset) :
        LET r == IngestProd(SvcState, documents, o)
        IN  /\ InstallSvcState(r.s)
            /\ last_ingest_summary' =
                  IF r.s.raised = None THEN r.summary ELSE last_ingest_summary
            /\ result' = [op |-> "ingest", arg |-> documents,
                          raised |-> r.s.raised, value |-> r.summary]
    /\ UNCHANGED <<HAS_GRAPH_BACKEND, config, data_dir, phase, using_stub, has_engine,
                   stubVars, bridgeVars>>

\* GraphRAGService.get_documents()
SvcGetDocuments ==
    /\ phase = "ready"
    /\ result' = [op |-> "get_documents", arg |-> None, raised |-> None,
                  value |-> IF using_stub THEN engine_documents ELSE svc_documents]
    /\ UNCHANGED <<envVars, svcVars, stubVars, bridgeVars>>

\* GraphRAGService.reset(), fallback mode
SvcResetStub ==
    /\ phase = "ready" /\ using_stub
    /\ StubReset
    /\ UNCHANGED <<envVars, svcVars, bridgeVars>>

\* A production reset that would swallow a configuration error and switch to
\* the fallback engine, as __init__ does. Not the code: SvcResetProd below
\* is.
SvcResetProdFallingBack ==
    /\ phase = "ready" /\ ~using_stub
    /\ \E o \in ResetOutcomes :
        LET s == ResetProd(SvcState, o)
        IN  /\ InstallSvcState(s)
            /\ using_stub' = (s.raised = CfgError)
            /\ has_engine' = (s.raised = CfgError)
            /\ result' = [op |-> "reset", arg |-> None,
                          raised |-> IF s.raised = CfgError THEN None ELSE s.raised,
                          value |-> [delete |-> o.delete,
                                     failure |-> InitFailure(o)]]
    /\ engine_documents' = <<>>
    /\ chat_history' = <<>>
    /\ UNCHANGED <<HAS_GRAPH_BACKEND, config, data_dir, phase, last_ingest_summary, task,
                   bridgeVars>>

\* A production reset that a failed graph deletion would end, before the
\* backend is built anew. Not the code: SvcResetProd below is.
SvcResetProdDeleteFatal ==
    /\ phase = "ready" /\ ~using_stub
    /\ \E o \in ResetOutcomes :
        LET s == IF o.delete # "ok" THEN [SvcState EXCEPT !.raised = CfgError]
                 ELSE ResetProd(SvcState, o)
        IN  /\ InstallSvcState(s)
            /\ result' = [op |-> "reset", arg |-> None, raised |-> s.raised,
                          value |-> [delete |-> o.delete,
                                     failure |-> InitFailure(o)]]
    /\ UNCHANGED <<HAS_GRAPH_BACKEND, config, data_dir, phase, using_stub, has_engine,
                   last_ingest_summary, stubVars, bridgeVars>>

\* GraphRAGService.reset(), production mode: an exception of the
\* re-initialisation propagates; the mode is not touched.
SvcResetProd ==
    /\ phase = "ready" /\ ~using_stub
    /\ \E o \in ResetOutcomes :
        LET s == ResetProd(SvcState, o)
        IN  /\ InstallSvcState(s)
            /\ result' = [op |-> "reset", arg |-> None, raised |-> s.raised,
                          value |-> [delete |-> o.delete,
                                     failure |-> InitFailure(o)]]
    /\ UNCHANGED <<HAS_GRAPH_BACKEND, config, data_dir, phase, using_stub, has_engine,
                   last_ingest_summary, stubVars, bridgeVars>>

\* GraphRAGService.stream_chat(prompt): in fallback mode the engine's
\* generator is driven; in production mode without a session the call raises
\* before any queue or worker exists; with a session the bridge starts.
SvcStreamChatStub ==
    /\ phase = "ready" /\ using_stub
    /\ \E t \in SvcTasks, prompt \in SvcPrompts : StubStreamStart(t, prompt)
    /\ UNCHANGED <<envVars, svcVars, bridgeVars>>

SvcStreamChatNoSession ==
    /\ phase = "ready" /\ ~using_stub
    /\ chat_session = NoObject
    /\ result' = [op |-> "stream_chat", arg |-> None, raised |-> CfgError, value |-> None]
    /\ UNCHANGED <<envVars, svcVars, stubVars, bridgeVars>>

(***************************************************************************)
(* services/ingestion.py: DataDirectoryIngestor                            *)
(***************************************************************************)

\* The last "."-segment of a file name, dot included, or "" when the name has
\* no dot after its first character: Path(filename).suffix
RECURSIVE SuffixFrom(_, _)
SuffixFrom(name, i) ==
    IF i <= 1 THEN <<>>
    ELSE IF name[i] = "." THEN (IF i = Len(name) THEN <<>> ELSE SubSeq(name, i, Len(name)))
    ELSE SuffixFrom(name, i - 1)

Suffix(name) == SuffixFrom(name, Len(name))

DotPdf == <<".", "p", "d", "f">>
DotTxt == <<".", "t", "x", "t">>

\* fnmatch of a name against "*" followed by a literal ending, case kept.
GlobEnding(name, ending) ==
    /\ Len(name) >= Len(ending)
    /\ SubSeq(name, Len(name) - Len(ending) + 1, Len(name)) = ending

\* persist_upload: the directory is chosen by the lower-cased suffix, and
\* write_bytes creates the file or replaces what the path held.
persist_upload(dir, filename, data) ==
    LET target_dir == IF Lower(Suffix(filename)) = DotPdf THEN "pdf" ELSE "txt"
    IN  {f \in dir : ~(f.dir = target_dir /\ f.name = filename)}
            \cup {[dir |-> target_dir, name |-> filename, data |-> data]}

\* The characters of the file names of the explored runs, in code-point order.
CharOrder == <<".", "T", "X", "a", "b", "c", "d", "f", "m", "p", "t", "x">>
CharRank(ch) == CHOOSE i \in DOMAIN CharOrder : CharOrder[i] = ch

\* a < b for two strings.
RECURSIVE StrLess(_, _)
StrLess(a, b) ==
    IF b = <<>> THEN FALSE
    ELSE IF a = <<>> THEN TRUE
    ELSE IF Head(a) = Head(b) THEN StrLess(Tail(a), Tail(b))
    ELSE CharRank(Head(a)) < CharRank(Head(b))

\* sorted(...) of a set of files of one directory, by name.
RECURSIVE SortedFiles(_)
SortedFiles(files) ==
    IF files = {} THEN <<>>
    ELSE LET first == CHOOSE f \in files :
                          \A g \in files : g = f \/ StrLess(f.name, g.name)
         IN  <<first>> \o SortedFiles(files \ {first})

\* The loop over sorted(txt_dir.glob("*.txt")): a file whose text is blank
\* after strip() gives no document.
RECURSIVE TextDocuments(_)
TextDocuments(files) ==
    IF files = <<>> THEN <<>>
    ELSE (IF Strip(Head(files).data) # <<>>
            THEN <<Document(Head(files).name, Head(files).data)>>
            ELSE <<>>)
         \o TextDocuments(Tail(files))

\* collect_documents on a tree whose pdf and url directories hold nothing
\* that matches: the documents of data/txt.
collect_documents(dir) ==
    TextDocuments(SortedFiles({f \in dir : f.dir = "txt" /\ GlobEnding(f.name, DotTxt)}))

(***************************************************************************)
(* routers/chat.py: the request handlers over app.state.engine             *)
(***************************************************************************)

\* The status ingest_documents answers with, given the documents collected
\* and the exception the engine calls ended in: 404 without documents, 500
\* for a configuration error through HTTPException, 200 for the returned
\* summary. Any other exception leaves the handler unhandled and the server
\* answers 500.
IngestStatus(documents, raised) ==
    IF documents = <<>> THEN 404
    ELSE IF raised = CfgError THEN 500
    ELSE IF raised = None THEN 200
    ELSE 500

\* What a production-mode POST /chat/ingest leaves behind: the service as the
\* engine calls left it, and the status for the exception they ended in.
HttpIngestAnswer(documents, s, summary) ==
    /\ InstallSvcState(s)
    /\ last_ingest_summary' = IF s.raised = None THEN summary ELSE last_ingest_summary
    /\ result' = [op |-> "POST /chat/ingest", arg |-> documents, raised |-> None,
                  value |-> [status |-> IngestStatus(documents, s.raised),
                             engine_error |-> s.raised,
                             body |-> IF s.raised = None THEN summary ELSE None]]
    /\ UNCHANGED <<HAS_GRAPH_BACKEND, config, data_dir, phase, using_stub, has_engine, stubVars>>

\* POST /chat/ingest on a GraphRAGService: collect_documents, then reset()
\* and ingest(documents) inside the try.
HttpIngest ==
    /\ phase = "ready"
    /\ LET documents == collect_documents(data_dir) IN
        IF documents = <<>>
          THEN /\ result' = [op |-> "POST /chat/ingest", arg |-> documents,
                             raised |-> None,
                             value |-> [status |-> IngestStatus(documents, None),
                                        engine_error |-> None, body |-> None]]
               /\ UNCHANGED <<envVars, svcVars, stubVars>>
        ELSE IF using_stub
          THEN /\ engine_documents' = DictSetAll(<<>>, documents)
               /\ chat_history' = <<>>
               /\ last_ingest_summary' =
                     StubModeSummary(documents,
                         StubIngestSummary(documents, <<>>, engine_documents'))
               /\ result' = [op |-> "POST /chat/ingest", arg |-> documents,
                             raised |-> None,
                             value |-> [status |-> IngestStatus(documents, None),
                                        engine_error |-> None,
                                        body |-> last_ingest_summary']]
               /\ UNCHANGED <<envVars, phase, using_stub, has_engine, svc_documents,
                              knowledge_graph, chat_session, model_config, ontology,
                              task>>
        ELSE \E o1 \in ResetOutcomes :
               LET s1 == ResetProd(SvcState, o1)
               IN  IF s1.raised # None
                     THEN HttpIngestAnswer(documents, s1, None)
                     ELSE \E o2 \in (IF config.reset_before_ingest
                                       THEN IngestOutcomes
                                       ELSE IngestOutcomesNoReset) :
                            LET r == IngestProd(s1, documents, o2)
                            IN  HttpIngestAnswer(documents, r.s, r.summary)
    /\ UNCHANGED bridgeVars

\* The names and contents of the files uploaded in the explored runs.
FileA == <<"a", ".", "t", "x", "t">>
FileB == <<"b", ".", "t", "x", "t">>
FileMd == <<"c", ".", "m", "d">>
UploadNames == {FileA, FileB, FileMd}
UploadData == {ContentAb, <<" ">>}
\* At most this many files are in the data directories.
MaxFiles == 2

\* POST /chat/upload: persist_upload(file.filename, contents).
HttpUpload ==
    /\ phase = "ready"
    /\ \E filename \in UploadNames, data \in UploadData :
          /\ Cardinality(persist_upload(data_dir, filename, data)) <= MaxFiles
          /\ data_dir' = persist_upload(data_dir, filename, data)
          /\ result' = [op |-> "POST /chat/upload", arg |-> filename, raised |-> None,
                        value |-> [status |-> 200, engine_error |-> None,
                                   body |-> [filename |-> filename]]]
    /\ UNCHANGED <<HAS_GRAPH_BACKEND, config, ontology_file, svcVars, stubVars,
                   bridgeVars>>

\* A JSON value of a response body: a string, or an object with its members.
JsonString(text) == [type |-> "string", value |-> text]
JsonObject(members) == [type |-> "object", value |-> members]

\* The body of GET /chat/documents: one {name, metadata} object per document
\* of engine.get_documents(), and the engine's mode.
list_documents ==
    LET documents == IF using_stub THEN engine_documents ELSE svc_documents
    IN  [documents |-> [i \in DOMAIN documents |->
                           JsonObject([name |-> documents[i].name,
                                       metadata |-> documents[i].metadata])],
         using_stub |-> using_stub]

\* GET /chat/documents
HttpListDocuments ==
    /\ phase = "ready"
    /\ result' = [op |-> "GET /chat/documents", arg |-> None, raised |-> None,
                  value |-> [status |-> 200, engine_error |-> None,
                             body |-> list_documents]]
    /\ UNCHANGED <<envVars, svcVars, stubVars, bridgeVars>>

\* POST /chat/stream: chat() builds the generator without running it and
\* returns StreamingResponse(...), whose status is the default 200; the
\* engine's stream_chat starts only when the body is iterated, so an
\* HTTPException raised in the generator comes after the status is fixed.
StreamStatus == 200

\* ... in fallback mode: the body is the engine's fragments.
HttpChatStub ==
    /\ phase = "ready" /\ using_stub
    /\ \E t \in SvcTasks, prompt \in SvcPrompts :
          /\ StubStreamBegin(t, prompt)
          /\ result' = [op |-> "POST /chat/stream", arg |-> prompt, raised |-> None,
                        value |-> [status |-> StreamStatus, engine_error |-> None]]
    /\ UNCHANGED <<envVars, svcVars, bridgeVars>>

\* ... in production mode without a session: stream_chat raises at the first
\* iteration of the body and the generator turns it into HTTPException(500).
HttpChatNoSession ==
    /\ phase = "ready" /\ ~using_stub
    /\ chat_session = NoObject
    /\ \E prompt \in SvcPrompts :
          result' = [op |-> "POST /chat/stream", arg |-> prompt, raised |-> None,
                     value |-> [status |-> StreamStatus, engine_error |-> CfgError]]
    /\ UNCHANGED <<envVars, svcVars, stubVars, bridgeVars>>

\* ... in production mode with a session: the bridge starts.
HttpChatProd ==
    \E c \in SvcCalls, prompt \in SvcPrompts :
        /\ StreamChatBegin(c)
        /\ result' = [op |-> "POST /chat/stream", arg |-> prompt, raised |-> None,
                      value |-> [status |-> StreamStatus, engine_error |-> None]]

(***************************************************************************)
(* Specifications                                                          *)
(***************************************************************************)

\* ---- the engine driven directly, under the cooperative scheduler


\* Two documents of one name and one of another: overwrite and append.
StubDocs == {Document(N1, ContentAb), Document(N1, ContentB), Document(N2, ContentB)}
StubPrompts == {<<"a">>, <<"q">>}

\* The generators driven when the engine is used directly.
StubTasks == {1}

\* Longest document list passed to one ingest call.
MaxBatch == 2
Batches == UNION {[1..k -> StubDocs] : k \in 0..MaxBatch}

StubInit ==
    /\ HAS_GRAPH_BACKEND = FALSE
    /\ config = [force_stub |-> TRUE, reset_before_ingest |-> FALSE,
                 auto_refresh_ontology |-> TRUE]
    /\ ontology_file = None
    /\ data_dir = {}
    /\ phase = "engine"
    /\ using_stub = TRUE
    /\ has_engine = TRUE
    /\ svc_documents = <<>>
    /\ knowledge_graph = NoObject
    /\ chat_session = NoObject
    /\ model_config = None
    /\ ontology = None
    /\ last_ingest_summary = None
    /\ result = [op |-> "__init__", arg |-> None, raised |-> None, value |-> None]
    /\ engine_documents = <<>>
    /\ chat_history = <<>>
    /\ task = [t \in Tasks |-> TaskIdle]
    /\ BridgeIdle

EngineIngest ==
    /\ \E documents \in Batches : StubIngest(documents)
    /\ UNCHANGED <<envVars, svcVars, bridgeVars>>

EngineGetDocuments ==
    /\ StubGetDocuments
    /\ UNCHANGED <<envVars, svcVars, bridgeVars>>

EngineStreamStart ==
    /\ \E t \in StubTasks, prompt \in StubPrompts : StubStreamStart(t, prompt)
    /\ UNCHANGED <<envVars, svcVars, bridgeVars>>

EngineStreamYield ==
    /\ \E t \in StubTasks : StubStreamYield(t)
    /\ UNCHANGED <<envVars, svcVars, bridgeVars>>

EngineReset ==
    /\ StubReset
    /\ UNCHANGED <<envVars, svcVars, bridgeVars>>

StubNext ==
    \/ EngineIngest
    \/ EngineGetDocuments
    \/ EngineStreamStart
    \/ EngineStreamYield
    \/ EngineReset

SpecStub == StubInit /\ [][StubNext]_vars

\* ---- the ranking and rendering functions applied to every small store

RankNames == {N1, N2, <<"n", "3">>, <<"n", "4">>}
RankContents == {ContentAb, ContentB, ContentLines}
RankDocs == {Document(n, c) : n \in RankNames, c \in RankContents}
RankPrompts ==
    {<<>>, <<" ", "\n">>, <<"a">>, <<"A", " ", "b">>, <<"a", " ", "a">>, <<"q">>}

\* Largest store the ranking is applied to.
MaxStore == 4

RECURSIVE StoresOfLen(_)
StoresOfLen(k) ==
    IF k = 0 THEN {<<>>}
    ELSE UNION {{Append(s, d) : d \in {e \in RankDocs :
                                        \A i \in DOMAIN s : s[i].name # e.name}} :
                s \in StoresOfLen(k - 1)}

RankStores == UNION {StoresOfLen(k) : k \in 0..MaxStore}

RankInit ==
    /\ HAS_GRAPH_BACKEND = FALSE
    /\ config = [force_stub |-> TRUE, reset_before_ingest |-> FALSE,
                 auto_refresh_ontology |-> TRUE]
    /\ ontology_file = None
    /\ data_dir = {}
    /\ phase = "engine"
    /\ using_stub = TRUE
    /\ has_engine = TRUE
    /\ svc_documents = <<>>
    /\ knowledge_graph = NoObject
    /\ chat_session = NoObject
    /\ model_config = None
    /\ ontology = None
    /\ last_ingest_summary = None
    /\ result = [op |-> "store", arg |-> None, raised |-> None, value |-> None]
    /\ engine_documents \in RankStores
    /\ chat_history = <<>>
    /\ task = [t \in Tasks |-> TaskIdle]
    /\ BridgeIdle

ApplyBuildHighlights ==
    /\ result.op = "store"
    /\ \E prompt \in RankPrompts :
          result' = [op |-> "_build_highlights", arg |-> prompt, raised |-> None,
                     value |-> _build_highlights(prompt, engine_documents)]
    /\ UNCHANGED <<envVars, svcVars, stubVars, bridgeVars>>

ApplyRenderAnswer ==
    /\ result.op = "store"
    /\ \E prompt \in RankPrompts :
          result' = [op |-> "_render_answer", arg |-> prompt, raised |-> None,
                     value |-> _render_answer(prompt,
                                   _build_highlights(prompt, engine_documents),
                                   engine_documents)]
    /\ UNCHANGED <<envVars, svcVars, stubVars, bridgeVars>>

RankNext == ApplyBuildHighlights \/ ApplyRenderAnswer

SpecRank == RankInit /\ [][RankNext]_vars


\* ---- repeated and concurrent chats on one unchanging store

\* The stores the chats are run on.
RestartStores ==
    {<<>>, <<Document(N1, ContentAb)>>,
     <<Document(N1, ContentB), Document(N2, ContentAb)>>}

RestartInit ==
    /\ HAS_GRAPH_BACKEND = FALSE
    /\ config = [force_stub |-> TRUE, reset_before_ingest |-> FALSE,
                 auto_refresh_ontology |-> TRUE]
    /\ ontology_file = None
    /\ data_dir = {}
    /\ phase = "engine"
    /\ using_stub = TRUE
    /\ has_engine = TRUE
    /\ svc_documents = <<>>
    /\ knowledge_graph = NoObject
    /\ chat_session = NoObject
    /\ model_config = None
    /\ ontology = None
    /\ last_ingest_summary = None
    /\ result = [op |-> "store", arg |-> None, raised |-> None, value |-> None]
    /\ engine_documents \in RestartStores
    /\ chat_history = <<>>
    /\ task = [t \in Tasks |-> TaskIdle]
    /\ BridgeIdle

RestartStreamStart ==
    /\ \E t \in Tasks, prompt \in StubPrompts : StubStreamStart(t, prompt)
    /\ UNCHANGED <<envVars, svcVars, bridgeVars>>

RestartStreamYield ==
    /\ \E t \in Tasks : StubStreamYield(t)
    /\ UNCHANGED <<envVars, svcVars, bridgeVars>>

RestartNext == RestartStreamStart \/ RestartStreamYield

SpecRestart == RestartInit /\ [][RestartNext]_vars

\* ---- concurrent chats on a store that ingest and reset change meanwhile

SessionBatches == {<<Document(N2, ContentAb)>>}
SessionPrompts == {<<"a">>}

SessionInit == RestartInit

SessionStreamStart ==
    /\ \E t \in Tasks, prompt \in SessionPrompts : StubStreamStart(t, prompt)
    /\ UNCHANGED <<envVars, svcVars, bridgeVars>>

SessionStreamYield ==
    /\ \E t \in Tasks : StubStreamYield(t)
    /\ UNCHANGED <<envVars, svcVars, bridgeVars>>

SessionIngest ==
    /\ \E documents \in SessionBatches : StubIngest(documents)
    /\ UNCHANGED <<envVars, svcVars, bridgeVars>>

SessionReset ==
    /\ StubReset
    /\ UNCHANGED <<envVars, svcVars, bridgeVars>>

SessionNext ==
    \/ SessionStreamStart
    \/ SessionStreamYield
    \/ SessionIngest
    \/ SessionReset

SpecSession == SessionInit /\ [][SessionNext]_vars

\* The caller of a started stream keeps iterating it and the event loop
\* resumes every sleep(0): a suspended generator is eventually resumed.
SessionFairness ==
    \A t \in Tasks :
        WF_vars(StubStreamYield(t) /\ UNCHANGED <<envVars, svcVars, bridgeVars>>)

FairSpecSession == SessionInit /\ [][SessionNext]_vars /\ SessionFairness

\* ---- the service from construction on

FacadeInit ==
    /\ HAS_GRAPH_BACKEND \in BOOLEAN
    /\ config \in [force_stub : BOOLEAN, reset_before_ingest : BOOLEAN,
                   auto_refresh_ontology : BOOLEAN]
    /\ ontology_file \in {None, "ontology"}
    /\ data_dir = {}
    /\ phase = "new"
    /\ using_stub = FALSE
    /\ has_engine = FALSE
    /\ svc_documents = <<>>
    /\ knowledge_graph = NoObject
    /\ chat_session = NoObject
    /\ model_config = None
    /\ ontology = None
    /\ last_ingest_summary = None
    /\ result = [op |-> "new", arg |-> None, raised |-> None, value |-> None]
    /\ engine_documents = <<>>
    /\ chat_history = <<>>
    /\ task = [t \in Tasks |-> TaskIdle]
    /\ BridgeIdle

\* stream_chat is taken to its first suspension here; what a started stream
\* does next is SpecStub's (fallback) and SpecBridge's (production) subject.
SvcStreamChatProd == \E c \in SvcCalls : StreamChatStart(c)

FacadeNext ==
    \/ Construct
    \/ SvcIngestStub
    \/ SvcIngestProd
    \/ SvcGetDocuments
    \/ SvcResetStub
    \/ SvcResetProd
    \/ SvcStreamChatStub
    \/ SvcStreamChatNoSession
    \/ SvcStreamChatProd

SpecFacade == FacadeInit /\ [][FacadeNext]_vars

\* ---- requests served by the application over its GraphRAGService

HttpNext ==
    \/ Construct
    \/ HttpUpload
    \/ HttpIngest
    \/ HttpListDocuments
    \/ HttpChatStub
    \/ HttpChatNoSession
    \/ HttpChatProd

SpecHttp == FacadeInit /\ [][HttpNext]_vars

\* ---- concurrent production streams on a service with an active session

BridgeInit ==
    /\ HAS_GRAPH_BACKEND = TRUE
    /\ config = [force_stub |-> FALSE, reset_before_ingest |-> FALSE,
                 auto_refresh_ontology |-> TRUE]
    /\ ontology_file = "ontology"
    /\ data_dir = {}
    /\ phase = "ready"
    /\ using_stub = FALSE
    /\ has_engine = FALSE
    /\ svc_documents = <<Document(N1, ContentAb)>>
    /\ knowledge_graph = <<[ontology |-> "ontology", sessions |-> 1]>>
    /\ chat_session = <<[id |-> 1]>>
    /\ model_config = "model_config"
    /\ ontology = "ontology"
    /\ last_ingest_summary = ProdSummary(<<Document(N1, ContentAb)>>, 1, TRUE)
    /\ result = [op |-> "ingest", arg |-> <<Document(N1, ContentAb)>>, raised |-> None,
                 value |-> ProdSummary(<<Document(N1, ContentAb)>>, 1, TRUE)]
    /\ engine_documents = <<>>
    /\ chat_history = <<>>
    /\ task = [t \in Tasks |-> TaskIdle]
    /\ BridgeIdle

BridgeStreamChat == \E c \in Calls : StreamChatStart(c)
BridgeWorkerChunk == \E c \in Calls : WorkerChunk(c)
BridgeWorkerExhausted == \E c \in Calls : WorkerExhausted(c)
BridgeWorkerRaise == \E c \in Calls : WorkerRaise(c)
BridgeWorkerFinally == \E c \in Calls : WorkerFinally(c)
BridgeLoopPut == \E c \in Calls : LoopPut(c)
BridgeConsumerGet == \E c \in Calls : ConsumerGet(c)

BridgeNext ==
    \/ BridgeStreamChat
    \/ BridgeWorkerChunk
    \/ BridgeWorkerExhausted
    \/ BridgeWorkerRaise
    \/ BridgeWorkerFinally
    \/ BridgeLoopPut
    \/ BridgeConsumerGet

SpecBridge == BridgeInit /\ [][BridgeNext]_vars

\* The worker is an operating-system thread, the loop runs every callback
\* handed to it, and the caller keeps iterating the stream: each of their
\* steps, once possible, is eventually taken.
BridgeFairness ==
    \A c \in Calls :
        /\ WF_vars(WorkerChunk(c) \/ WorkerExhausted(c) \/ WorkerRaise(c))
        /\ WF_vars(WorkerFinally(c))
        /\ WF_vars(LoopPut(c))
        /\ WF_vars(ConsumerGet(c))

FairSpecBridge == BridgeInit /\ [][BridgeNext]_vars /\ BridgeFairness

(***************************************************************************)
(* Properties                                                              *)
(***************************************************************************)

IsPrefix(a, b) == Len(a) <= Len(b) /\ SubSeq(b, 1, Len(a)) = a

\* The fragments waiting in the queue of call c, the sentinel left out.
QueuedFragments(c) == SelectSeq(queue[c], LAMBDA item : item # None)

\* C1 (production bridge, order preservation): what the consumer has received
\* is at every moment a prefix of what the producer has emitted (the same
\* fragments, each once, in the same order); if the producer completed
\* without raising, the consumer is never given an error and, when its stream
\* ends, it has received every fragment emitted.
C1_OrderPreserved ==
    \A c \in Calls :
        /\ IsPrefix(delivered[c], produced[c])
        /\ outcome[c] = "ok" =>
              /\ cpc[c] # "raised"
              /\ cpc[c] = "done" => delivered[c] = produced[c]

\* A producer emitted A, B and completed; the consumer's stream has ended.
C1_Witness ==
    \E c \in Calls :
        /\ outcome[c] = "ok" /\ cpc[c] = "done"
        /\ produced[c] = <<"A", "B">>

\* C2 (production bridge, partial delivery on failure): if the producer raised
\* after n >= 0 fragments, the consumer's stream never ends normally, and at
\* the moment the configuration error is raised to the consumer all n
\* fragments have been delivered, in order.
C2_PartialDelivery ==
    \A c \in Calls :
        /\ outcome[c] = "raised" =>
              /\ IsPrefix(delivered[c], produced[c])
              /\ cpc[c] # "done"
        /\ cpc[c] = "raised" => outcome[c] = "raised" /\ delivered[c] = produced[c]

\* A producer emitted B, A and raised; the consumer has been given the error.
C2_Witness ==
    \E c \in Calls :
        /\ outcome[c] = "raised" /\ cpc[c] = "raised"
        /\ produced[c] = <<"B", "A">>

\* C3 (production bridge, no hang): the end-of-stream sentinel is only ever
\* the last item of the queue, enqueued when every emitted fragment is already
\* queued or delivered; and once the producer has terminated, normally or by
\* raising, the consumer eventually leaves its read loop.
SentinelAfterFragments ==
    \A c \in Calls :
        \A i \in DOMAIN queue[c] :
            queue[c][i] = None =>
                /\ i = Len(queue[c])
                /\ delivered[c] \o QueuedFragments(c) = produced[c]

C3_NoHang ==
    /\ []SentinelAfterFragments
    /\ \A c \in Calls : (outcome[c] # "running") ~> (cpc[c] \in {"done", "raised"})

\* A producer raised, its worker has ended and the consumer has left the loop.
C3_Witness ==
    \E c \in Calls :
        outcome[c] = "raised" /\ wpc[c] = "done" /\ cpc[c] = "raised"

\* C4 (graceful degrade at construction), as the specification states it:
\* whatever makes the production backend unavailable (SDK not loaded, a model
\* binding that cannot be built, an unreachable graph store), the constructor
\* returns normally and the facade is in fallback mode with an empty engine.
\* The code catches only ValueError around LiteModel, so any other exception
\* of LiteModel leaves __init__ uncaught: this statement does not hold.
C4_ConstructionNeverRaises ==
    (result.op = "__init__" /\ result.value.failure # None) =>
        /\ result.raised = None
        /\ using_stub /\ has_engine
        /\ engine_documents = <<>>

\* force_stub as the constructor call of the last result settles it: the
\* keyword argument when one was passed, the configuration's flag otherwise.
EffectiveForceStub ==
    IF result.arg = "True" THEN TRUE
    ELSE IF result.arg = "False" THEN FALSE
    ELSE config.force_stub

ProductionFailuresPropagate ==
    (phase = "ready" /\ ~using_stub /\ result.raised = None) =>
        /\ result.op = "reset" =>
              model_config # None /\ knowledge_graph # NoObject
        /\ (result.op = "ingest" /\ result.arg # <<>>) => chat_session # NoObject

\* C6 (mode fixed after construction): no ingest, get_documents, stream_chat
\* or reset call, failing or not, changes using_stub or creates an engine; in
\* production mode a GraphRAGConfigurationError of such a call is the call's
\* outcome (it is not swallowed) and the facade stays in production mode.
C6_ModeFixed ==
    /\ []ProductionFailuresPropagate
    /\ [][phase = "ready" =>
            /\ using_stub' = using_stub
            /\ has_engine' = has_engine
            /\ result'.raised = CfgError => ~using_stub']_vars

\* A production-mode reset raised a configuration error; still production.
C6_Witness ==
    /\ phase = "ready" /\ ~using_stub
    /\ result.op = "reset" /\ result.raised = CfgError

\* The names held by a store or a document list, and the entry of one name.
NamesOf(docs) == {docs[i].name : i \in DOMAIN docs}
EntryOf(store, name) == CHOOSE d \in {store[i] : i \in DOMAIN store} : d.name = name
LastOf(docs, name) ==
    docs[CHOOSE i \in DOMAIN docs :
            /\ docs[i].name = name
            /\ \A j \in DOMAIN docs : docs[j].name = name => j <= i]

\* C7 (last-write-wins): an ingest call leaves a store with one entry per
\* name, whose names are those held before and those passed; a name passed
\* holds the last document of that name in the call, and every other name
\* holds what it held before. (By induction over the calls since the last
\* reset, each name holds the document of its most recent ingest.)
C7_LastWriteWins ==
    [][result'.op = "ingest" =>
          LET docs == result'.arg
          IN  /\ UniqueNames(engine_documents')
              /\ NamesOf(engine_documents') = NamesOf(engine_documents) \cup NamesOf(docs)
              /\ \A n \in NamesOf(docs) :
                    EntryOf(engine_documents', n) = LastOf(docs, n)
              /\ \A n \in NamesOf(engine_documents) \ NamesOf(docs) :
                    EntryOf(engine_documents', n) = EntryOf(engine_documents, n)]_vars

\* One call passed the same name twice; the store holds the second document.
C7_Witness ==
    /\ result.op = "ingest"
    /\ result.arg = <<Document(N1, ContentAb), Document(N1, ContentB)>>
    /\ engine_documents = <<Document(N1, ContentB)>>

\* The summary of the ingest call of the last result.
IngestSummaryCounts ==
    result.op = "ingest" =>
        /\ result.raised = None
        /\ result.value.documents_ingested = Len(result.arg)
        /\ result.value.total_documents = Cardinality(NamesOf(engine_documents))
        /\ (result.arg = <<>> /\ engine_documents = <<>>) =>
              result.value = [documents_ingested |-> 0, total_documents |-> 0]

\* C8 (fallback ingest summary): every ingest succeeds; documents_ingested is
\* the number of documents passed (duplicates counted), total_documents the
\* number of distinct names stored after the call; an ingest of the empty
\* list leaves the store as it was, and on an empty engine returns 0 and 0.
C8_IngestSummary ==
    /\ []IngestSummaryCounts
    /\ [][(result'.op = "ingest" /\ result'.arg = <<>>) =>
              engine_documents' = engine_documents]_vars

\* Two documents of one name were passed: 2 ingested, 1 stored.
C8_Witness ==
    /\ result.op = "ingest"
    /\ result.arg = <<Document(N1, ContentAb), Document(N1, ContentB)>>
    /\ result.value = [documents_ingested |-> 2, total_documents |-> 1]

\* The fragments of "No knowledge available yet. Please ingest documents and
\* try again.": its words, each followed by a space.
NoKnowledgeFragments ==
    << <<"N","o"," ">>,
       <<"k","n","o","w","l","e","d","g","e"," ">>,
       <<"a","v","a","i","l","a","b","l","e"," ">>,
       <<"y","e","t","."," ">>,
       <<"P","l","e","a","s","e"," ">>,
       <<"i","n","g","e","s","t"," ">>,
       <<"d","o","c","u","m","e","n","t","s"," ">>,
       <<"a","n","d"," ">>,
       <<"t","r","y"," ">>,
       <<"a","g","a","i","n","."," ">> >>

\* After reset() both the store and the session log are empty, and a
\* finished stream has yielded every fragment of its answer.
ResetLeavesBothEmpty ==
    /\ result.op = "reset" => engine_documents = <<>> /\ chat_history = <<>>
    /\ \A t \in Tasks : task[t].pc = "done" => task[t].sent = Len(task[t].chunks)

\* C9 (fallback reset atomicity): reset() empties the store and the session
\* log in one step (no step of any task empties one and leaves the other
\* non-empty behind a reset); a get_documents() that follows a reset returns
\* the empty list, and a stream_chat of any prompt on the empty store yields
\* exactly the fragments of the "No knowledge available yet" message.
C9_ResetAtomic ==
    /\ []ResetLeavesBothEmpty
    /\ [][/\ result'.op = "reset" =>
                engine_documents' = <<>> /\ chat_history' = <<>>
          /\ (engine_documents # <<>> /\ engine_documents' = <<>>) =>
                chat_history' = <<>>
          /\ (result.op = "reset" /\ result'.op = "get_documents") =>
                result'.value = <<>>
          /\ (result'.op = "stream_chat" /\ engine_documents = <<>>) =>
                task'[result'.value].chunks = NoKnowledgeFragments
          /\ (result'.op = "fragment") =>
                result'.value = task[result'.arg].chunks[task'[result'.arg].sent]]_vars

\* reset() ran between two fragments of a suspended stream.
C9_Witness ==
    /\ result.op = "reset"
    /\ engine_documents = <<>> /\ chat_history = <<>>
    /\ \E t \in Tasks : task[t].pc = "sleep" /\ task[t].sent = 1

\* A prompt without a whitespace-delimited token.
NoToken(prompt) == \A i \in DOMAIN prompt : prompt[i] \in Whitespace

\* C10 (top-K bound): _build_highlights returns at most 3 entries, each a
\* document of the store listed once, and returns the empty list when the
\* store is empty or the prompt has no whitespace-delimited token.
C10_TopKBound ==
    result.op = "_build_highlights" =>
        /\ Len(result.value) <= 3
        /\ \A i, j \in DOMAIN result.value :
              /\ \E k \in DOMAIN engine_documents :
                    result.value[i].document = engine_documents[k]
              /\ result.value[i].document.name = result.value[j].document.name => i = j
        /\ (engine_documents = <<>> \/ NoToken(result.arg)) => result.value = <<>>

\* Four stored documents all match the prompt; three are returned.
C10_Witness ==
    /\ result.op = "_build_highlights"
    /\ Len(engine_documents) = 4
    /\ \A k \in DOMAIN engine_documents :
          Score(Tokens(result.arg), engine_documents[k]) > 0
    /\ Len(result.value) = 3

\* The place of a stored document in the store's iteration order.
StoreIndex(document) ==
    CHOOSE k \in DOMAIN engine_documents : engine_documents[k] = document

\* The stored documents a ranked result lists.
Listed(ranked) == {ranked[i].document : i \in DOMAIN ranked}

\* C11 (ranking order): in a result of _build_highlights every entry's score
\* is at least the score of the entry after it; entries of equal score stand
\* in store (insertion) order; and a matching document left out by the
\* truncation to 3 ranks after every entry kept: it has a smaller score, or
\* the same score and a later place in the store.
C11_RankingOrder ==
    result.op = "_build_highlights" =>
        LET ranked == result.value
        IN  /\ \A i \in DOMAIN ranked : i < Len(ranked) =>
                  \/ ranked[i].score > ranked[i + 1].score
                  \/ /\ ranked[i].score = ranked[i + 1].score
                     /\ StoreIndex(ranked[i].document) < StoreIndex(ranked[i + 1].document)
            /\ ranked # <<>> =>
                  \A k \in DOMAIN engine_documents :
                     LET d == engine_documents[k]
                         sc == Score(Tokens(result.arg), d)
                     IN  (sc > 0 /\ d \notin Listed(ranked)) =>
                            \A i \in DOMAIN ranked :
                               \/ ranked[i].score > sc
                               \/ ranked[i].score = sc /\ StoreIndex(ranked[i].document) < k

\* Four matching documents; the best one is not the first stored, the second
\* and third entries tie, and the last stored document ties with them and is
\* the one left out.
C11_Witness ==
    /\ result.op = "_build_highlights"
    /\ Len(engine_documents) = 4 /\ Len(result.value) = 3
    /\ result.value[1].document # engine_documents[1]
    /\ result.value[1].score > result.value[2].score
    /\ result.value[2].score = result.value[3].score
    /\ Score(Tokens(result.arg), engine_documents[4]) = result.value[3].score
    /\ engine_documents[4] \notin Listed(result.value)

\* The whitespace-delimited tokens of a prompt, lower-cased, in prompt order
\* and as often as they occur.
TokenList(prompt) == [i \in DOMAIN Split(prompt) |-> Lower(Split(prompt)[i])]

\* How many token occurrences of the prompt are substrings of the lower-cased
\* content, and how many distinct tokens are.
MatchingOccurrences(prompt, content) ==
    Cardinality({i \in DOMAIN TokenList(prompt) :
                    Contains(TokenList(prompt)[i], Lower(content))})
MatchingTokens(prompt, content) ==
    Cardinality({t \in {TokenList(prompt)[i] : i \in DOMAIN TokenList(prompt)} :
                    Contains(t, Lower(content))})

\* C12 (ranking score), as the specification states it: each entry's score
\* is the number of tokens of the split prompt that occur in the lower-cased
\* content. A prompt that repeats a token ("a a") refutes it: the code
\* builds a set of tokens, so a repeated token counts once.
C12_ScoreIsTokenCount ==
    result.op = "_build_highlights" =>
        \A i \in DOMAIN result.value :
            /\ result.value[i].score >= 1
            /\ result.value[i].score =
                  MatchingOccurrences(result.arg, result.value[i].document.content)

\* C12, amended: each entry's score is the number of distinct lower-cased
\* tokens of the prompt that are substrings of the document's lower-cased
\* content, every score is at least 1, and when fewer than 3 entries are
\* returned the entries are all the stored documents with a positive count.
C12_ScoreIsDistinctTokenCount ==
    result.op = "_build_highlights" =>
        /\ \A i \in DOMAIN result.value :
              /\ result.value[i].score >= 1
              /\ result.value[i].score =
                    MatchingTokens(result.arg, result.value[i].document.content)
        /\ Len(result.value) < 3 =>
              \A k \in DOMAIN engine_documents :
                 MatchingTokens(result.arg, engine_documents[k].content) > 0
                    => engine_documents[k] \in Listed(result.value)

\* The prompt "a a" against a document "Ab": the token occurs twice in the
\* prompt, matches inside the word regardless of case, and the score is 1.
C12_Witness ==
    /\ result.op = "_build_highlights"
    /\ result.arg = <<"a", " ", "a">>
    /\ \E i \in DOMAIN result.value :
          /\ result.value[i].document.content = ContentAb
          /\ result.value[i].score = 1

\* The prompts and answers of the session log, in the order of the calls.
LoggedCalls ==
    {[prompt |-> chat_history[i].content, answer |-> chat_history[i + 1].content] :
        i \in {k \in DOMAIN chat_history : chat_history[k].role = "user"}}

\* C13 (restartable, deterministic fallback answer): on a store that no
\* ingest or reset changes, any two stream_chat calls with the same prompt
\* get the same fragment sequence and log the same answer, whatever the
\* session log held when each was made and whatever was asked before.
C13_SameAnswerOnRestart ==
    /\ \A t1, t2 \in Tasks :
          (/\ task[t1].pc # "idle" /\ task[t2].pc # "idle"
           /\ task[t1].prompt = task[t2].prompt)
              => task[t1].chunks = task[t2].chunks
    /\ \A c1, c2 \in LoggedCalls : c1.prompt = c2.prompt => c1.answer = c2.answer
    /\ \A t \in Tasks : task[t].pc # "idle" =>
          \E c \in LoggedCalls : c.prompt = task[t].prompt /\ task[t].chunks = Chunks(c.answer)

\* Two calls with the prompt "a" on a store of two documents: the second was
\* made with the first call's entries in the log, and both have finished.
C13_Witness ==
    /\ Len(engine_documents) = 2
    /\ Len(chat_history) = 4
    /\ \A t \in Tasks : /\ task[t].pc = "done" /\ task[t].prompt = <<"a">>
                        /\ task[t].sent = Len(task[t].chunks)
                        /\ task[t].sent > 0

\* The texts of the three rendering rules, written out.
TextNoKnowledge ==
    <<"N","o"," ","k","n","o","w","l","e","d","g","e"," ","a","v","a","i",
      "l","a","b","l","e"," ","y","e","t","."," ","P","l","e","a","s","e",
      " ","i","n","g","e","s","t"," ","d","o","c","u","m","e","n","t","s",
      " ","a","n","d"," ","t","r","y"," ","a","g","a","i","n",".">>
TextNoMatchOpen ==
    <<"N","o"," ","d","i","r","e","c","t"," ","m","a","t","c","h"," ","f",
      "o","u","n","d"," ","f","o","r"," ","'">>
TextNoMatchAvailable ==
    <<"'","."," ","A","v","a","i","l","a","b","l","e"," ","d","o","c","u",
      "m","e","n","t","s",":"," ">>
TextPromptOpen ==
    <<"P","r","o","m","p","t",":"," ">>
TextTopSources ==
    <<"\n","T","o","p"," ","s","o","u","r","c","e","s",":"," ">>

\* The names of a non-empty document list, separated by ", ".
RECURSIVE NameList(_)
NameList(docs) ==
    IF Len(docs) = 1 THEN docs[1].name
    ELSE docs[1].name \o <<",", " ">> \o NameList(Tail(docs))

\* No stored document contains a token of the prompt: the ranking is empty.
NothingMatches(prompt) ==
    \A k \in DOMAIN engine_documents :
        MatchingTokens(prompt, engine_documents[k].content) = 0

\* C14 (rendering rule selection): the answer is the fixed "No knowledge
\* available yet..." text exactly when the store is empty; on a non-empty
\* store where nothing matches it is "No direct match found for '<prompt>'.
\* Available documents: <names>." with the prompt as given and every stored
\* name in store order; on a non-empty store with a match it opens with
\* "Prompt: <prompt>\nTop sources: ".
C14_RuleSelection ==
    result.op = "_render_answer" =>
        /\ (result.value = TextNoKnowledge) <=> (engine_documents = <<>>)
        /\ (engine_documents # <<>> /\ NothingMatches(result.arg)) =>
              result.value = TextNoMatchOpen \o result.arg \o TextNoMatchAvailable
                                \o NameList(engine_documents) \o <<".">>
        /\ (engine_documents # <<>> /\ ~NothingMatches(result.arg)) =>
              IsPrefix(TextPromptOpen \o result.arg \o TextTopSources, result.value)
        /\ IsPrefix(TextNoMatchOpen, result.value) =>
              (engine_documents # <<>> /\ NothingMatches(result.arg))

\* Three stored documents, a whitespace-only prompt: the "no direct match"
\* answer echoes the prompt and lists the three names.
C14_Witness ==
    /\ result.op = "_render_answer"
    /\ Len(engine_documents) = 3
    /\ result.arg = <<" ", "\n">>
    /\ IsPrefix(TextNoMatchOpen \o <<" ", "\n">> \o TextNoMatchAvailable, result.value)

\* The first two non-empty lines of a content, each stripped.
FirstTwoNonEmptyLines(content) ==
    LET lines    == SplitLines(content)
        stripped == [i \in DOMAIN lines |-> Strip(lines[i])]
    IN  Take(SelectSeq(stripped, LAMBDA l : l # <<>>), 2)

\* "<name> (score <score>): <excerpt>" with the excerpt the specification
\* describes.
SpecifiedSummary(h) ==
    h.document.name \o <<" ","(","s","c","o","r","e"," ">> \o IntToStr(h.score)
        \o <<")",":"," ">>
        \o (IF Len(FirstTwoNonEmptyLines(h.document.content)) = 2
              THEN FirstTwoNonEmptyLines(h.document.content)[1] \o <<" ","/"," ">>
                      \o FirstTwoNonEmptyLines(h.document.content)[2]
            ELSE IF Len(FirstTwoNonEmptyLines(h.document.content)) = 1
              THEN FirstTwoNonEmptyLines(h.document.content)[1]
            ELSE <<>>)

RECURSIVE SpecifiedSummaries(_)
SpecifiedSummaries(ranked) ==
    IF Len(ranked) = 1 THEN SpecifiedSummary(ranked[1])
    ELSE SpecifiedSummary(ranked[1]) \o <<" ","|"," ">> \o SpecifiedSummaries(Tail(ranked))

\* C15 (rendering rule C excerpt), as the specification states it: when the
\* ranking is not empty the answer is "Prompt: <prompt>\nTop sources: "
\* followed by the summaries of the ranked documents in ranking order joined
\* by " | ", each "<name> (score <score>): <excerpt>" with the excerpt the
\* first two non-empty lines of the content, stripped, joined by " / ", also
\* when a blank line lies between them. The code slices the first two lines
\* before it drops the blank ones, so for "a\n\nc" it renders "a", not
\* "a / c": this statement does not hold.
C15_ExcerptFirstTwoNonEmptyLines ==
    (/\ result.op = "_render_answer"
     /\ _build_highlights(result.arg, engine_documents) # <<>>) =>
        result.value = TextPromptOpen \o result.arg \o TextTopSources
            \o SpecifiedSummaries(_build_highlights(result.arg, engine_documents))

\* The state right after a production ingest of documents returned normally.
ProdIngestSucceeded ==
    /\ phase = "ready" /\ ~using_stub
    /\ result.op = "ingest" /\ result.raised = None /\ result.arg # <<>>

\* C16 (production ingest replaces the corpus): after a successful ingest of
\* a non-empty list in production mode the document map holds exactly one
\* entry per distinct name of that call (the last document of the name) and
\* nothing of earlier calls, total_documents is the number of those entries,
\* and the chat session is the one just opened on the current graph; and
\* get_documents() returns the document map.
C16_IngestReplacesCorpus ==
    /\ [](ProdIngestSucceeded =>
            /\ UniqueNames(svc_documents)
            /\ NamesOf(svc_documents) = NamesOf(result.arg)
            /\ \A n \in NamesOf(result.arg) :
                  EntryOf(svc_documents, n) = LastOf(result.arg, n)
            /\ result.value.total_documents = Cardinality(NamesOf(result.arg))
            /\ result.value.documents_ingested = Len(result.arg)
            /\ knowledge_graph # NoObject
            /\ chat_session = <<[id |-> knowledge_graph[1].sessions]>>
            /\ knowledge_graph[1].sessions >= 1)
    /\ [][(result'.op = "get_documents" /\ ~using_stub) =>
             result'.value = svc_documents]_vars

\* The second successful ingest on one graph passed a single document; the
\* map holds that document only.
C16_Witness ==
    /\ ProdIngestSucceeded
    /\ result.arg = <<Document(N1, ContentAb)>>
    /\ svc_documents = <<Document(N1, ContentAb)>>
    /\ knowledge_graph[1].sessions = 2

\* A step that is a production-mode ingest([]).
ProdEmptyIngestStep ==
    /\ phase = "ready" /\ ~using_stub
    /\ result'.op = "ingest" /\ result'.arg = <<>>

\* What ingest([]) leaves alone in production mode.
ProdEmptyIngestFrame ==
    /\ result'.raised = None
    /\ UNCHANGED <<svc_documents, chat_session, ontology, ontology_file,
                   knowledge_graph, model_config, using_stub>>
    /\ result'.value.documents_ingested = 0
    /\ result'.value.ontology_refreshed = FALSE
    /\ result'.value.document_names = <<>>

\* C17 (production empty ingest), as the specification states it: ingest([])
\* changes neither the document map, the chat session, the ontology nor the
\* graph, and returns documents_ingested = 0, total_documents = 0 and
\* ontology_refreshed = false. After an ingest of documents the code returns
\* total_documents = len(self._documents), which is not 0.
C17_EmptyIngestZeroCounts ==
    [][ProdEmptyIngestStep =>
          ProdEmptyIngestFrame /\ result'.value.total_documents = 0]_vars

\* C17, amended: ingest([]) in production mode returns normally, changes
\* neither the document map, the chat session, the ontology nor the graph,
\* and returns documents_ingested = 0, ontology_refreshed = false and
\* total_documents = the number of documents the map holds.
C17_EmptyIngestReportsMap ==
    [][ProdEmptyIngestStep =>
          ProdEmptyIngestFrame /\ result'.value.total_documents = Len(svc_documents)]_vars

\* ingest([]) on a map of two documents with an active session.
C17_Witness ==
    /\ phase = "ready" /\ ~using_stub
    /\ result.op = "ingest" /\ result.arg = <<>> /\ result.raised = None
    /\ Len(svc_documents) = 2 /\ chat_session # NoObject
    /\ result.value.total_documents = 2

\* In production mode a session appears only with a successful ingest of
\* documents.
SessionOpenedByIngestOnly ==
    (/\ phase = "ready" /\ ~using_stub
     /\ chat_session' # chat_session /\ chat_session' # NoObject) =>
        /\ result'.op = "ingest" /\ result'.raised = None /\ result'.arg # <<>>

\* Without a session stream_chat raises the configuration error and neither
\* a queue, a worker nor a fragment comes into being.
NoSessionNoStream ==
    (/\ phase = "ready" /\ ~using_stub /\ chat_session = NoObject
     /\ result'.op = "stream_chat") =>
        /\ result'.raised = CfgError
        /\ UNCHANGED bridgeVars

\* C18 (production stream_chat requires a session), as the specification
\* states it: a session is active only after a successful non-empty ingest
\* that no reset has followed, so right after any reset() call none is
\* active; and without a session stream_chat fails with the configuration
\* error, starts no worker and delivers no fragment. A reset() whose
\* re-initialisation raises leaves the earlier session in place: this
\* statement does not hold.
C18_SessionOnlyAfterIngest ==
    /\ []((phase = "ready" /\ ~using_stub /\ result.op = "reset") =>
              chat_session = NoObject)
    /\ [][SessionOpenedByIngestOnly]_vars
    /\ [][NoSessionNoStream]_vars

\* The state right after a production-mode reset() call.
AfterProdReset == phase = "ready" /\ ~using_stub /\ result.op = "reset"

\* C19 (production reset): reset() fails exactly when the re-initialisation
\* of the backend fails, whatever the graph deletion did; and whenever it
\* returns normally the document map is empty, no chat session is active
\* and the graph object is a new one, whether or not the deletion succeeded.
C19_ResetSurvivesDeleteFailure ==
    AfterProdReset =>
        /\ (result.raised = None) <=> (result.value.failure = None)
        /\ result.raised = None =>
              /\ svc_documents = <<>>
              /\ chat_session = NoObject
              /\ knowledge_graph # NoObject
              /\ knowledge_graph[1].sessions = 0
              /\ model_config # None

\* The deletion raised, and reset() returned normally.
C19_Witness ==
    /\ AfterProdReset
    /\ result.value.delete = "Exception"
    /\ result.raised = None
    /\ svc_documents = <<>> /\ chat_session = NoObject

\* C20 (configuration errors at the request boundary), as the specification
\* states it: a request to POST /chat/ingest or POST /chat/stream whose
\* engine call failed with GraphRAGConfigurationError is answered with a
\* status that is not 2xx and not the 404 of "no documents found". For
\* /chat/stream the status 200 is fixed before the engine is called: this
\* statement does not hold.
C20_ConfigErrorNon2xx ==
    (/\ result.op \in {"POST /chat/ingest", "POST /chat/stream"}
     /\ result.value.engine_error = CfgError) =>
        /\ result.value.status \notin 200..299
        /\ result.value.status # 404

\* Equality of two JSON values.
JsonEq(a, b) == a.type = b.type /\ a.value = b.value

\* The uploaded files C21 speaks of, read in the way most favourable to the
\* statement: stored under data/txt with a name ending in ".txt" and a text
\* that is not blank.
UploadedTextFiles ==
    {f \in data_dir : f.dir = "txt" /\ GlobEnding(f.name, DotTxt) /\ Strip(f.data) # <<>>}

IngestAnswered200 ==
    result.op = "POST /chat/ingest" /\ result.value.status = 200

\* The names of the objects of a "documents" list.
ListedNames(listing) == {listing[i].value.name : i \in DOMAIN listing}

\* C21 (upload, then ingest, then list), as the specification states it:
\* once POST /chat/ingest has succeeded, every uploaded text file F is an
\* element of the response's document_names, and a GET /chat/documents that
\* follows returns a "documents" list that has F as an element and whose
\* entries are exactly the collected directory contents. The entries of the
\* list are {name, metadata} objects, never the name F itself: this
\* statement does not hold.
C21_UploadIngestList ==
    /\ [](IngestAnswered200 =>
            \A f \in UploadedTextFiles :
                \E i \in DOMAIN result.value.body.document_names :
                    result.value.body.document_names[i] = f.name)
    /\ [][(IngestAnswered200 /\ result'.op = "GET /chat/documents") =>
            LET listing == result'.value.body.documents
            IN  /\ \A f \in UploadedTextFiles :
                      \E i \in DOMAIN listing : JsonEq(listing[i], JsonString(f.name))
                /\ ListedNames(listing) = NamesOf(collect_documents(data_dir))]_vars

\* The session log is a sequence of (user, assistant) pairs.
LogIsPairs ==
    /\ Len(chat_history) % 2 = 0
    /\ \A i \in DOMAIN chat_history :
          chat_history[i].role = (IF i % 2 = 1 THEN "user" ELSE "assistant")

\* The step is the start of a stream_chat call.
StreamStarts == result'.op = "stream_chat" /\ task' # task

\* C22 (session log ordering in the fallback engine): the log is always a
\* sequence of user/assistant pairs; the step that starts a stream_chat call
\* appends exactly the pair (user, prompt), (assistant, answer rendered from
\* the store of that moment) while none of the call's fragments has been
\* yielded; every other step leaves the log as it is, except reset, which
\* empties it.
C22_LogOrdering ==
    /\ []LogIsPairs
    /\ [][IF StreamStarts
            THEN /\ chat_history' = chat_history \o
                       <<[role |-> "user", content |-> result'.arg],
                         [role |-> "assistant",
                          content |-> _render_answer(result'.arg,
                                         _build_highlights(result'.arg, engine_documents),
                                         engine_documents)]>>
                 /\ task'[result'.value].sent = 0
            ELSE \/ chat_history' = chat_history
                 \/ result'.op = "reset" /\ chat_history' = <<>>]_vars

\* Two calls are in flight, each with fragments yielded and fragments left,
\* and the log holds their two pairs.
C22_Witness ==
    /\ Len(chat_history) = 4
    /\ \A t \in Tasks : task[t].pc = "sleep" /\ task[t].sent > 0
    /\ chat_history[2].content # chat_history[4].content

\* C23 (document map and chat session change together), as the
\* specification states it: in every state of a production-mode service,
\* between operations, a chat session is active exactly when the document
\* map is not empty. ingest assigns the map before it asks the graph for the
\* session, so a failure of that last call leaves a map without a session:
\* this statement does not hold.
C23_SessionIffDocuments ==
    (phase = "ready" /\ ~using_stub) =>
        (chat_session # NoObject <=> svc_documents # <<>>)

\* The answer stream_chat renders for a prompt from the store of this state.
AnswerNow(prompt) ==
    _render_answer(prompt, _build_highlights(prompt, engine_documents), engine_documents)

\* The words of a text, each followed by one space.
SpacedWords(text) ==
    LET words == Split(text) IN [i \in DOMAIN words |-> words[i] \o <<" ">>]

\* C24 (a fallback stream in flight is a snapshot): the step that starts a
\* call fixes its fragments as the words of the answer rendered from the
\* prompt and the store of that moment, each followed by a space; while the
\* call is suspended, no step of another call, ingest or reset changes its
\* fragments or its position, and each resumption yields exactly the next of
\* them; the call has ended exactly when all of them were yielded, and every
\* suspended call does end.
C24_StreamIsSnapshot ==
    /\ [][\A t \in Tasks :
            IF result'.op = "stream_chat" /\ result'.value = t
              THEN /\ \E prompt \in SessionPrompts :
                         /\ prompt = result'.arg
                         /\ task'[t].chunks = SpacedWords(AnswerNow(prompt))
                   /\ task'[t].sent = 0
            ELSE task[t].pc = "sleep" =>
                   /\ task'[t].chunks = task[t].chunks
                   /\ IF result'.op = "fragment" /\ result'.arg = t
                        THEN /\ result'.value = task[t].chunks[task[t].sent + 1]
                             /\ task'[t].sent = task[t].sent + 1
                        ELSE task'[t] = task[t]]_vars
    /\ [](\A t \in Tasks :
            /\ task[t].pc = "done" => task[t].sent = Len(task[t].chunks)
            /\ task[t].pc = "sleep" => task[t].sent < Len(task[t].chunks))
    /\ \A t \in Tasks : (task[t].pc = "sleep") ~> (task[t].pc = "done")

\* An ingest or a reset has just run between two fragments of a call whose
\* answer, rendered now, would be another one.
C24_Witness ==
    /\ result.op \in {"ingest", "reset"}
    /\ \E t \in Tasks :
          /\ task[t].pc = "sleep" /\ task[t].sent > 0
          /\ task[t].chunks # Chunks(AnswerNow(task[t].prompt))

\* Everything one production stream_chat call owns, now and after the step.
CallState(c) ==
    <<queue[c], error[c], wpc[c], pending[c], cpc[c], produced[c], outcome[c],
      delivered[c]>>
CallStateNext(c) ==
    <<queue'[c], error'[c], wpc'[c], pending'[c], cpc'[c], produced'[c], outcome'[c],
      delivered'[c]>>

\* C25 (concurrent production streams are isolated): a step of one call
\* changes nothing of the other call (its queue, recorded failures, fragments
\* received, position); what a consumer has received and what waits in its
\* queue are fragments of its own producer, in order; its stream ends only
\* after its own producer has ended and enqueued its sentinel, and it is
\* given an error exactly when that producer is the one that raised.
C25_StreamsIsolated ==
    /\ [](\A c \in Calls :
            /\ IsPrefix(delivered[c] \o QueuedFragments(c), produced[c])
            /\ cpc[c] \in {"done", "raised"} => wpc[c] = "done" /\ queue[c] = <<>>
            /\ cpc[c] = "done" => outcome[c] = "ok" /\ error[c] = <<>>
            /\ cpc[c] = "raised" => outcome[c] = "raised" /\ error[c] # <<>>)
    /\ [][\A c, d \in Calls :
            (c # d /\ CallStateNext(d) # CallState(d)) =>
                CallStateNext(c) = CallState(c)]_vars

\* Two concurrent calls: the producer of one emitted A and raised, and its
\* consumer has the error; the other emitted B, B, ended, and its consumer
\* received B, B and ended normally.
C25_Witness ==
    \E c, d \in Calls :
        /\ c # d
        /\ cpc[c] = "raised" /\ produced[c] = <<"A">> /\ delivered[c] = <<"A">>
        /\ cpc[d] = "done" /\ produced[d] = <<"B", "B">> /\ delivered[d] = <<"B", "B">>

\* The step is a production ingest of a non-empty batch, made without
\* reset-before-ingest, that raised a configuration error.
ProdIngestFailedNoReset ==
    /\ phase = "ready" /\ ~using_stub /\ ~config.reset_before_ingest
    /\ result'.op = "ingest" /\ result'.arg # <<>> /\ result'.raised = CfgError
    /\ <<svcVars, ontology_file>>' # <<svcVars, ontology_file>> \/ result' # result

\* C26 (a failed production ingest keeps the corpus): when
\* reset_before_ingest is false and an ingest of a non-empty batch raises a
\* configuration error, the document map, what get_documents() returns from
\* it, and the active chat session are what they were before the call.
C26_FailedIngestKeepsCorpus ==
    [][ProdIngestFailedNoReset =>
          /\ svc_documents' = svc_documents
          /\ chat_session' = chat_session]_vars

\* Such an ingest has failed on a service that holds a session and a map of
\* other documents than the ones passed.
C26_Witness ==
    /\ phase = "ready" /\ ~using_stub /\ ~config.reset_before_ingest
    /\ result.op = "ingest" /\ result.raised = CfgError
    /\ chat_session # NoObject
    /\ svc_documents # <<>>
    /\ NamesOf(result.arg) # NamesOf(svc_documents)

====
